---- MODULE Spec2Model ----
(***************************************************************************)
(* Anomaly detection, correlation, insight generation and impact scoring   *)
(* of the booking-metrics insight engine                                   *)
(* (src/src/analytics/anomaly-detector.service.ts,                         *)
(*  src/src/insights/insights.service.ts,                                  *)
(*  src/src/insights/insights.controller.ts).                              *)
(*                                                                         *)
(* Numbers.  The code computes in IEEE doubles; the model computes the     *)
(* same expressions in exact rational arithmetic (records [n, d], d > 0,   *)
(* in lowest terms).  A square root is kept as the rational it is the root *)
(* of (record [sq]), and compared by squaring.  A division by zero gives   *)
(* the values the code gets: Infinity, -Infinity or NaN.                   *)
(*                                                                         *)
(* Time.  The clock and the timestamps count units of 1/Hour of an hour    *)
(* (half hours), where the code counts milliseconds; hour buckets are the  *)
(* multiples of Hour.                                                      *)
(***************************************************************************)
EXTENDS Integers, Sequences, FiniteSets, TLC

VARIABLES
    pageViewsHourly,    \* table pageviews_hourly: a set of rows
    userActionsHourly,  \* table useractions_hourly
    performanceHourly,  \* table performance_hourly
    businessInsight,    \* table business_insights: the rows written, in order
    clock,              \* the wall clock, new Date()
    run                 \* the last request: what each stage of it produced

vars == <<pageViewsHourly, userActionsHourly, performanceHourly,
          businessInsight, clock, run>>

tables == <<pageViewsHourly, userActionsHourly, performanceHourly>>

----------------------------------------------------------------------------
(* Program constants *)

Hour == 2            \* clock units in an hour (the code: 60 * 60 * 1000 ms)
RecentHours == 6     \* recentStart = now - 6 h
BaselineHours == 30  \* baselineStart = now - 30 h
TopN == 5            \* slice(0, 5)
DefaultScore == 50   \* no matching anomaly: return 50

(* Bounds of the model *)

MaxRecords == 4      \* rows in the three metric tables together
MaxTicks == 1        \* how far the clock runs past StartClock
MaxStored == 5       \* capacity of business_insights in the model
MaxScorings == 2     \* how often one insight is scored on its own

StartClock == 32 * Hour

Undefined == "undefined"   \* a property the row does not have

----------------------------------------------------------------------------
(* Exact rationals *)

RECURSIVE GCD(_, _)
GCD(a, b) == IF b = 0 THEN a ELSE GCD(b, a % b)

AbsInt(x) == IF x < 0 THEN -x ELSE x

Rat(n, d) ==
    LET g == GCD(AbsInt(n), AbsInt(d))
        s == IF d < 0 THEN -1 ELSE 1
    IN  [n |-> (s * n) \div g, d |-> (s * d) \div g]

FromInt(i) == [n |-> i, d |-> 1]
Zero == FromInt(0)
Infinity == [n |-> 1, d |-> 0]
NegInfinity == [n |-> -1, d |-> 0]
NaN == [n |-> 0, d |-> 0]

IsFinite(a) == a.d # 0
IsNaN(a) == a.d = 0 /\ a.n = 0

Add(a, b) == Rat(a.n * b.d + b.n * a.d, a.d * b.d)
Sub(a, b) == Rat(a.n * b.d - b.n * a.d, a.d * b.d)
Mul(a, b) ==
    IF IsFinite(a) /\ IsFinite(b) THEN Rat(a.n * b.n, a.d * b.d)
    ELSE IF IsNaN(a) \/ IsNaN(b) \/ a.n = 0 \/ b.n = 0 THEN NaN
    ELSE IF (a.n > 0) = (b.n > 0) THEN Infinity ELSE NegInfinity
\* a / b for finite a and b, as IEEE division gives it
Div(a, b) ==
    IF b.n # 0 THEN Rat(a.n * b.d, a.d * b.n)
    ELSE IF a.n = 0 THEN NaN
    ELSE IF a.n > 0 THEN Infinity ELSE NegInfinity
Abs(a) == [n |-> AbsInt(a.n), d |-> a.d]
\* a < b; false when either is NaN
Less(a, b) ==
    IF IsNaN(a) \/ IsNaN(b) THEN FALSE
    ELSE IF IsFinite(a) /\ IsFinite(b) THEN a.n * b.d < b.n * a.d
    ELSE IF ~IsFinite(a) /\ ~IsFinite(b) THEN a.n < b.n
    ELSE IF ~IsFinite(a) THEN a.n < 0
    ELSE b.n > 0
Greater(a, b) == Less(b, a)
Min(a, b) == IF Less(b, a) THEN b ELSE a
Max(a, b) == IF Less(a, b) THEN b ELSE a
\* Math.floor of a finite rational
Floor(a) == a.n \div a.d
\* Math.round: the nearest integer, a half rounding up
Round(a) == Floor(Add(a, Rat(1, 2)))

\* Math.sqrt(v), kept as the value under the root
Sqrt(v) == [sq |-> v]
\* k * Math.sqrt(v) for a rational k >= 0
ScaleRoot(k, r) == [sq |-> Mul(Mul(k, k), r.sq)]
\* x > r for a rational x and a root r
GreaterThanRoot(x, r) == Less(Zero, x) /\ Less(r.sq, Mul(x, x))

----------------------------------------------------------------------------
(* The rows the repository may hold *)

CoorgMobile ==
    [page |-> "/coorg-adventure-trek", pageCategory |-> "Adventure",
     deviceType |-> "Mobile", referrer |-> "Instagram", region |-> "South India"]
CoorgDesktop ==
    [page |-> "/coorg-adventure-trek", pageCategory |-> "Adventure",
     deviceType |-> "Desktop", referrer |-> "Google", region |-> "North India"]
CheckoutMobile ==
    [page |-> "/checkout", pageCategory |-> "Checkout",
     deviceType |-> "Mobile", referrer |-> "Direct", region |-> "North India"]

PageViewRow(h, c, v) ==
    [timestamp |-> h * Hour, page |-> c.page, pageCategory |-> c.pageCategory,
     viewCount |-> v, referrer |-> c.referrer, deviceType |-> c.deviceType,
     region |-> c.region]

\* m = <<avgSessionDuration, bounceRate, conversionRate>>
UserActionRow(h, c, m) ==
    [timestamp |-> h * Hour, page |-> c.page, pageCategory |-> c.pageCategory,
     avgSessionDuration |-> m[1], bounceRate |-> m[2], conversionRate |-> m[3],
     conversionCount |-> 1, deviceType |-> c.deviceType,
     referrer |-> c.referrer, region |-> c.region]

\* m = <<avgLoadTime, errorRate>>
PerformanceRow(h, c, m) ==
    [timestamp |-> h * Hour, page |-> c.page, pageCategory |-> c.pageCategory,
     avgLoadTime |-> m[1], errorRate |-> m[2], deviceType |-> c.deviceType,
     region |-> c.region]

\* Hour buckets around StartClock = 32 h: 2 h is now - 30 h, 26 h is
\* now - 6 h, 29 h is three hours old, 46 h lies in the future.
PageViewsDomain ==
    {PageViewRow(2, CoorgMobile, 5), PageViewRow(14, CoorgMobile, 0),
     PageViewRow(14, CoorgMobile, 5), PageViewRow(26, CoorgMobile, 22),
     PageViewRow(29, CoorgMobile, 5), PageViewRow(29, CoorgMobile, 22),
     PageViewRow(46, CoorgMobile, 22),
     PageViewRow(29, CheckoutMobile, 22)}

UserActionsDomain ==
    {UserActionRow(14, CoorgMobile, <<20, 30, 50>>),
     UserActionRow(26, CoorgMobile, <<11, 40, 31>>),
     UserActionRow(29, CoorgMobile, <<11, 40, 31>>)}

PerformanceDomain ==
    {PerformanceRow(14, CoorgMobile, <<10, 1>>),
     PerformanceRow(29, CoorgMobile, <<25, 3>>)}

TaggedRows ==
    {<<"pageViews", r>> : r \in PageViewsDomain}
      \cup {<<"userActions", r>> : r \in UserActionsDomain}
      \cup {<<"performance", r>> : r \in PerformanceDomain}

\* the sets of Ts and those with one more element of S
Extend(Ts, S) == Ts \cup {T \cup {x} : T \in Ts, x \in S}

RECURSIVE SubsetsUpTo(_, _)
SubsetsUpTo(S, k) == IF k = 0 THEN {{}} ELSE Extend(SubsetsUpTo(S, k - 1), S)

RowsOf(T, family) == {x[2] : x \in {y \in T : y[1] = family}}

\* the dimensional key of a row: one row per hour and combination
RowKey(r) == <<r.timestamp, r.page, r.deviceType, r.region,
               IF "referrer" \in DOMAIN r THEN r.referrer ELSE Undefined>>

\* a row stamped half an hour into its hour
HalfPast(r) == [r EXCEPT !.timestamp = @ + 1]

\* One page seen from two combinations of dimensions, rows inside an hour and
\* rows before the baseline window: 0 h is now - 32 h.
PageViewsByDimension ==
    {PageViewRow(14, CoorgMobile, 5), PageViewRow(14, CoorgDesktop, 100),
     PageViewRow(29, CoorgMobile, 22), PageViewRow(29, CoorgDesktop, 22),
     HalfPast(PageViewRow(29, CoorgMobile, 22))}

UserActionsByDimension ==
    {UserActionRow(0, CoorgMobile, <<20, 30, 50>>),
     UserActionRow(14, CoorgMobile, <<20, 30, 50>>),
     UserActionRow(29, CoorgMobile, <<11, 40, 31>>),
     UserActionRow(29, CoorgMobile, <<20, 30, 80>>),
     UserActionRow(30, CoorgMobile, <<11, 40, 31>>)}

PerformanceByDimension ==
    {PerformanceRow(14, CoorgMobile, <<10, 1>>),
     HalfPast(PerformanceRow(29, CoorgMobile, <<25, 3>>))}

TaggedRowsByDimension ==
    {<<"pageViews", r>> : r \in PageViewsByDimension}
      \cup {<<"userActions", r>> : r \in UserActionsByDimension}
      \cup {<<"performance", r>> : r \in PerformanceByDimension}

\* One page that has page views, steady or surging three hours ago, and its
\* user-action and performance rows.
PageViewsSteady == {PageViewRow(14, CoorgMobile, 5)}
PageViewsSurging == {PageViewRow(14, CoorgMobile, 5), PageViewRow(29, CoorgMobile, 22)}

UserActionsOfPage ==
    {UserActionRow(0, CoorgMobile, <<20, 30, 50>>),
     UserActionRow(14, CoorgMobile, <<20, 30, 50>>),
     UserActionRow(29, CoorgMobile, <<11, 40, 31>>),
     UserActionRow(29, CoorgMobile, <<20, 32, 50>>),
     UserActionRow(30, CoorgMobile, <<11, 40, 31>>)}

PerformanceOfPage ==
    {PerformanceRow(14, CoorgMobile, <<10, 1>>),
     PerformanceRow(29, CoorgMobile, <<25, 3>>),
     PerformanceRow(29, CoorgMobile, <<10, 3>>),
     PerformanceRow(29, CoorgMobile, <<4, 1>>),
     HalfPast(PerformanceRow(29, CoorgMobile, <<25, 3>>))}

TaggedRowsOfPage ==
    {<<"userActions", r>> : r \in UserActionsOfPage}
      \cup {<<"performance", r>> : r \in PerformanceOfPage}

\* One page whose baseline rows hold the value 0: no view, no session, no
\* bounce, no conversion, no load time, no error.
PageViewsFromZero == {PageViewRow(14, CoorgMobile, 0), PageViewRow(29, CoorgMobile, 22)}

UserActionsFromZero ==
    {UserActionRow(14, CoorgMobile, <<20, 0, 0>>),
     UserActionRow(14, CoorgMobile, <<0, 30, 50>>),
     UserActionRow(29, CoorgMobile, <<11, 40, 31>>),
     UserActionRow(29, CoorgMobile, <<20, 0, 0>>)}

PerformanceFromZero ==
    {PerformanceRow(14, CoorgMobile, <<10, 0>>),
     PerformanceRow(14, CoorgMobile, <<0, 1>>),
     PerformanceRow(29, CoorgMobile, <<25, 3>>)}

TaggedRowsFromZero ==
    {<<"userActions", r>> : r \in UserActionsFromZero}
      \cup {<<"performance", r>> : r \in PerformanceFromZero}

\* One page with a page-view row in its baseline and, three hours ago, rows
\* of its two combinations of device, referrer and region.
PageViewsOfBaseline == {PageViewRow(14, CoorgMobile, 5)}

PageViewsOfHour ==
    {PageViewRow(29, CoorgMobile, 22), PageViewRow(29, CoorgDesktop, 22),
     PageViewRow(29, CoorgDesktop, 30)}

UserActionsOfHour ==
    {UserActionRow(14, CoorgMobile, <<20, 30, 50>>),
     UserActionRow(29, CoorgMobile, <<11, 40, 31>>),
     UserActionRow(29, CoorgDesktop, <<11, 40, 31>>)}

TaggedRowsOfHour ==
    {<<"pageViews", r>> : r \in PageViewsOfHour}
      \cup {<<"userActions", r>> : r \in UserActionsOfHour}

OneRowPerKey(table) ==
    \A r1, r2 \in table : RowKey(r1) = RowKey(r2) => r1 = r2

----------------------------------------------------------------------------
(* Sequences *)

RECURSIVE Flatten(_)
Flatten(ss) == IF ss = <<>> THEN <<>> ELSE Head(ss) \o Flatten(Tail(ss))

RECURSIVE SumSeq(_)
SumSeq(s) == IF s = <<>> THEN Zero ELSE Add(Head(s), SumSeq(Tail(s)))

\* Array.find over the indices that pass its test: the first of them, 0 if
\* there is none
firstIndex(places) ==
    IF places = {} THEN 0 ELSE CHOOSE i \in places : \A j \in places : i <= j

----------------------------------------------------------------------------
(* The repository: prisma.<table>.findMany / findFirst *)

RowOrders == {"asc", "desc"}

Combos == <<CoorgMobile, CoorgDesktop, CheckoutMobile>>
ComboRank(r) ==
    CHOOSE i \in 1..Len(Combos) :
        /\ Combos[i].page = r.page
        /\ Combos[i].deviceType = r.deviceType
        /\ Combos[i].region = r.region
\* the place of a row in its table, in the order the rows were inserted
\* (hour by hour, combination by combination)
RowRank(r) == r.timestamp * (Len(Combos) + 1) + ComboRank(r)

RECURSIVE InOrder(_, _)
InOrder(rows, ord) ==
    IF rows = {} THEN <<>>
    ELSE LET first == CHOOSE r \in rows : \A q \in rows :
                          IF ord = "asc" THEN RowRank(r) <= RowRank(q)
                                         ELSE RowRank(r) >= RowRank(q)
         IN  <<first>> \o InOrder(rows \ {first}, ord)

\* where: [page, gte] and optionally lt, deviceType, referrer, region
Matches(r, where) ==
    /\ r.page = where.page
    /\ r.timestamp >= where.gte
    /\ ("lt" \in DOMAIN where => r.timestamp < where.lt)
    /\ ("deviceType" \in DOMAIN where => r.deviceType = where.deviceType)
    /\ ("referrer" \in DOMAIN where => r.referrer = where.referrer)
    /\ ("region" \in DOMAIN where => r.region = where.region)

\* the rows come back in an order the query does not state: ord
findMany(table, where, ord) ==
    InOrder({r \in table : Matches(r, where)}, ord)

\* take: 1; no row is <<>> (null)
firstRow(rows) == IF rows = <<>> THEN <<>> ELSE <<rows[1]>>

findFirst(table, where, ord) == firstRow(findMany(table, where, ord))

----------------------------------------------------------------------------
(* AnomalyDetectorService *)

calculateMean(values) ==
    IF Len(values) = 0 THEN Zero
    ELSE Div(SumSeq(values), FromInt(Len(values)))

calculateStdDev(values, mean) ==
    IF Len(values) = 0 THEN Sqrt(Zero)
    ELSE LET sq(val) == Mul(Sub(val, mean), Sub(val, mean))
             variance == Div(SumSeq([i \in 1..Len(values) |-> sq(values[i])]),
                             FromInt(Len(values)))
         IN  Sqrt(variance)

\* distinct: ['page'] -- the page of each row that is the first of its page
RECURSIVE distinctPages(_, _)
distinctPages(rows, i) ==
    IF i > Len(rows) THEN <<>>
    ELSE (IF \A j \in 1..(i - 1) : rows[j].page # rows[i].page
          THEN <<rows[i].page>> ELSE <<>>)
           \o distinctPages(rows, i + 1)

getUniquePages(ord) == distinctPages(InOrder(pageViewsHourly, ord), 1)

\* combinations.map(c => ({page: c.page, deviceType: undefined, ...}))
combinationsOf(pages) == [i \in 1..Len(pages) |-> [page |-> pages[i]]]

getUniqueCombinations(ord) == combinationsOf(getUniquePages(ord))

\* a test that passes over a deviation of a tenth of the mean or less
isAnomalousAboveTenth(currentValue, baselineMean, baselineStdDev) ==
    LET deviation == Abs(Sub(currentValue, baselineMean))
        threshold == ScaleRoot(Rat(5, 2), baselineStdDev)
    IN  /\ GreaterThanRoot(deviation, threshold)
        /\ Greater(deviation, Mul(baselineMean, Rat(1, 10)))
        /\ Greater(baselineMean, Zero)

\* the test with >= where the code has >
isAnomalousAtLeast(currentValue, baselineMean, baselineStdDev) ==
    LET deviation == Abs(Sub(currentValue, baselineMean))
        threshold == ScaleRoot(Rat(5, 2), baselineStdDev)
    IN  /\ ~Less(Mul(deviation, deviation), threshold.sq)
        /\ Greater(baselineMean, Zero)

\* deviation > threshold && baselineMean > 0
isAnomalous(currentValue, baselineMean, baselineStdDev) ==
    LET deviation == Abs(Sub(currentValue, baselineMean))
        threshold == ScaleRoot(Rat(5, 2), baselineStdDev)
    IN  GreaterThanRoot(deviation, threshold) /\ Greater(baselineMean, Zero)

Field(r, f) == IF f \in DOMAIN r THEN r[f] ELSE Undefined

\* an anomaly tagged with the page alone, not with the dimensions of the
\* recent row
anomalyRecordOfPage(recent, metricType, metric, currentValue, baselineMean, baselineStdDev) ==
    [page |-> recent.page,
     metricType |-> metricType,
     metric |-> metric,
     currentValue |-> currentValue,
     baselineMean |-> baselineMean,
     baselineStdDev |-> baselineStdDev,
     percentageChange |->
         Mul(Div(Sub(currentValue, baselineMean), baselineMean), FromInt(100)),
     timestamp |-> recent.timestamp,
     context |-> [deviceType |-> Undefined, region |-> Undefined,
                  referrer |-> Undefined,
                  pageCategory |-> Field(recent, "pageCategory")]]

\* anomalies.push({...})
anomalyRecord(recent, metricType, metric, currentValue, baselineMean, baselineStdDev) ==
    [page |-> recent.page,
     metricType |-> metricType,
     metric |-> metric,
     currentValue |-> currentValue,
     baselineMean |-> baselineMean,
     baselineStdDev |-> baselineStdDev,
     percentageChange |->
         Mul(Div(Sub(currentValue, baselineMean), baselineMean), FromInt(100)),
     timestamp |-> recent.timestamp,
     context |-> [deviceType |-> Field(recent, "deviceType"),
                  region |-> Field(recent, "region"),
                  referrer |-> Field(recent, "referrer"),
                  pageCategory |-> Field(recent, "pageCategory")]]

\* the loop over recentData of the three detectors
checkRecent(recentData, field, metricType, metric, baselineMean, baselineStdDev) ==
    LET value(recent) == FromInt(recent[field])
        push(recent) ==
            IF isAnomalous(value(recent), baselineMean, baselineStdDev)
            THEN <<anomalyRecord(recent, metricType, metric, value(recent),
                                 baselineMean, baselineStdDev)>>
            ELSE <<>>
    IN  Flatten([i \in 1..Len(recentData) |-> push(recentData[i])])

\* a baseline query that leaves out the row at baselineStart itself
baselineWhereAfterStart(page, baselineStart, baselineEnd) ==
    [page |-> page, gte |-> baselineStart + 1, lt |-> baselineEnd]

baselineWhere(page, baselineStart, baselineEnd) ==
    [page |-> page, gte |-> baselineStart, lt |-> baselineEnd]

recentWhere(page, recentStart) == [page |-> page, gte |-> recentStart]

\* a detector once its two queries have answered: the baseline statistics,
\* then the loop over the recent rows
againstMean(recentData, field, metricType, metric, baselineValues, baselineMean) ==
    checkRecent(recentData, field, metricType, metric, baselineMean,
                calculateStdDev(baselineValues, baselineMean))

againstValues(recentData, field, metricType, metric, baselineValues) ==
    againstMean(recentData, field, metricType, metric, baselineValues,
                calculateMean(baselineValues))

\* a detector that tests against a baseline of one value 1 when the baseline
\* query returns no row
againstDefaultBaseline(baselineData, recentData, field, metricType, metric) ==
    againstValues(recentData, field, metricType, metric,
                  IF Len(baselineData) = 0 THEN <<FromInt(1)>>
                  ELSE [i \in 1..Len(baselineData) |->
                            FromInt(baselineData[i][field])])

againstBaseline(baselineData, recentData, field, metricType, metric) ==
    IF Len(baselineData) = 0 THEN <<>>
    ELSE againstValues(recentData, field, metricType, metric,
                       [i \in 1..Len(baselineData) |->
                            FromInt(baselineData[i][field])])

detectTrafficAnomalies(page, recentStart, baselineStart, baselineEnd, ord) ==
    againstBaseline(
        findMany(pageViewsHourly,
                 baselineWhere(page, baselineStart, baselineEnd), ord),
        findMany(pageViewsHourly, recentWhere(page, recentStart), ord),
        "viewCount", "Traffic", "PageViews")

\* the words a string of the program is made of: s.includes(word) is modelled
\* on them
Words(s) ==
    CASE s = "avgSessionDuration" -> {"avg", "Session", "Duration"}
      [] s = "bounceRate" -> {"bounce", "Rate"}
      [] s = "conversionRate" -> {"conversion", "Rate"}
      [] s = "avgLoadTime" -> {"avg", "Load", "Time"}
      [] s = "errorRate" -> {"error", "Rate"}
      [] s = "Traffic Surge" -> {"Traffic", "Surge"}
      [] s = "Traffic Drop" -> {"Traffic", "Drop"}
      [] s = "Performance Issue" -> {"Performance", "Issue"}
      [] s = "Engagement Drop" -> {"Engagement", "Drop"}
      [] s = "Conversion Drop" -> {"Conversion", "Drop"}
      [] s = "/checkout" -> {"/", "checkout"}
      [] s = "/coorg-adventure-trek" -> {"/", "coorg", "-", "adventure", "trek"}
      [] OTHER -> {s}

includes(s, word) == word \in Words(s)

metricTable(metricField) ==
    IF includes(metricField, "Session") \/ includes(metricField, "bounce")
         \/ includes(metricField, "conversion")
    THEN userActionsHourly
    ELSE performanceHourly

\* valueExtractor is (data) => data[metricField]
detectMetricAnomaly(page, recentStart, baselineStart, baselineEnd, metricField, metricType, metricName, ord) ==
    againstBaseline(
        findMany(metricTable(metricField),
                 baselineWhere(page, baselineStart, baselineEnd), ord),
        findMany(metricTable(metricField), recentWhere(page, recentStart), ord),
        metricField, metricType, metricName)

detectEngagementAnomalies(page, recentStart, baselineStart, baselineEnd, ord) ==
    detectMetricAnomaly(page, recentStart, baselineStart, baselineEnd,
                        "avgSessionDuration", "UserActions",
                        "Session Duration", ord)
      \o detectMetricAnomaly(page, recentStart, baselineStart, baselineEnd,
                             "bounceRate", "Engagement", "Bounce Rate", ord)
      \o detectMetricAnomaly(page, recentStart, baselineStart, baselineEnd,
                             "conversionRate", "Conversion",
                             "Conversion Rate", ord)

detectPerformanceAnomalies(page, recentStart, baselineStart, baselineEnd, ord) ==
    detectMetricAnomaly(page, recentStart, baselineStart, baselineEnd,
                        "avgLoadTime", "Performance", "Load Time", ord)
      \o detectMetricAnomaly(page, recentStart, baselineStart, baselineEnd,
                             "errorRate", "Performance", "Error Rate", ord)

recentStartOf(now) == now - RecentHours * Hour
baselineStartOf(now) == now - BaselineHours * Hour
baselineEndOf(now) == now - RecentHours * Hour

detectAnomalies(now, ord) ==
    LET recentStart == recentStartOf(now)
        baselineStart == baselineStartOf(now)
        baselineEnd == baselineEndOf(now)
        ofPage(page) ==
            detectTrafficAnomalies(page, recentStart, baselineStart, baselineEnd, ord)
              \o detectEngagementAnomalies(page, recentStart, baselineStart,
                                           baselineEnd, ord)
              \o detectPerformanceAnomalies(page, recentStart, baselineStart,
                                            baselineEnd, ord)
        pages == getUniquePages(ord)
    IN  Flatten([i \in 1..Len(pages) |-> ofPage(pages[i])])

comboWhere(combo, base) ==
    LET dims == {f \in {"deviceType", "referrer", "region"} : f \in DOMAIN combo}
    IN  [f \in DOMAIN base \cup dims |-> IF f \in DOMAIN base THEN base[f] ELSE combo[f]]

detectTrafficAnomaliesGranular(combo, recentStart, baselineStart, baselineEnd, ord) ==
    againstBaseline(
        findMany(pageViewsHourly,
                 comboWhere(combo, baselineWhere(combo.page, baselineStart,
                                                 baselineEnd)), ord),
        findMany(pageViewsHourly,
                 comboWhere(combo, recentWhere(combo.page, recentStart)), ord),
        "viewCount", "Traffic", "PageViews")

detectEngagementAnomaliesGranular(combo, recentStart, baselineStart, baselineEnd) ==
    <<>>

detectPerformanceAnomaliesGranular(combo, recentStart, baselineStart, baselineEnd) ==
    <<>>

detectGranularAnomalies(now, ord) ==
    LET recentStart == recentStartOf(now)
        baselineStart == baselineStartOf(now)
        baselineEnd == baselineEndOf(now)
        ofCombo(combo) ==
            detectTrafficAnomaliesGranular(combo, recentStart, baselineStart,
                                           baselineEnd, ord)
              \o detectEngagementAnomaliesGranular(combo, recentStart, baselineStart,
                                                   baselineEnd)
              \o detectPerformanceAnomaliesGranular(combo, recentStart, baselineStart,
                                                    baselineEnd)
        combinations == getUniqueCombinations(ord)
    IN  Flatten([i \in 1..Len(combinations) |-> ofCombo(combinations[i])])

\* timestamp.setMinutes(0, 0, 0)
hourStartOf(timestamp) == timestamp - (timestamp % Hour)

\* an hour that starts at the timestamp itself
hourWhereFromTimestamp(page, timestamp) ==
    [page |-> page, gte |-> timestamp, lt |-> timestamp + Hour]

hourWhere(page, timestamp) ==
    [page |-> page, gte |-> hourStartOf(timestamp),
     lt |-> hourStartOf(timestamp) + Hour]

\* the baseline of a correlation lookup: 30 h to 6 h before the anomaly
lookupBaselineWhere(page, timestamp) ==
    [page |-> page, gte |-> timestamp - BaselineHours * Hour,
     lt |-> timestamp - RecentHours * Hour]

\* null is <<>>, a result is <<[conversionRate, baselineRate]>>
\* the mean of the baseline rows, the recent value when there are none
baselineOr(baseline, field, recent) ==
    IF Len(baseline) > 0
    THEN Div(SumSeq([i \in 1..Len(baseline) |-> FromInt(baseline[i][field])]),
             FromInt(Len(baseline)))
    ELSE FromInt(recent[1][field])

conversionDataOf(recent, baseline) ==
    IF recent = <<>> THEN <<>>
    ELSE <<[conversionRate |-> FromInt(recent[1].conversionRate),
            baselineRate |-> baselineOr(baseline, "conversionRate", recent)]>>

getConversionDataForPage(page, timestamp, ord) ==
    conversionDataOf(
        findFirst(userActionsHourly, hourWhere(page, timestamp), ord),
        findMany(userActionsHourly, lookupBaselineWhere(page, timestamp), ord))

bounceDataOf(recent, baseline) ==
    IF recent = <<>> THEN <<>>
    ELSE <<[bounceRate |-> FromInt(recent[1].bounceRate),
            baselineBounceRate |-> baselineOr(baseline, "bounceRate", recent)]>>

getBounceRateForPage(page, timestamp, ord) ==
    bounceDataOf(
        findFirst(userActionsHourly, hourWhere(page, timestamp), ord),
        findMany(userActionsHourly, lookupBaselineWhere(page, timestamp), ord))

\* (value - baseline) / baseline * 100
changeOf(value, baseline) == Mul(Div(Sub(value, baseline), baseline), FromInt(100))

\* correlated metrics with a bounce rate that must be above 1.5 times its
\* baseline
correlatedMetricsAboveHalf(anomaly, conversionData, bounceData) ==
    (IF /\ anomaly.metricType = "Traffic"
        /\ Greater(anomaly.percentageChange, Zero)
        /\ conversionData # <<>>
        /\ Less(conversionData[1].conversionRate,
                Mul(conversionData[1].baselineRate, Rat(9, 10)))
     THEN <<[metric |-> "Conversion Rate",
             value |-> conversionData[1].conversionRate,
             change |-> changeOf(conversionData[1].conversionRate,
                                 conversionData[1].baselineRate),
             correlation |-> "traffic_up_conversions_down"]>>
     ELSE <<>>)
      \o
    (IF /\ anomaly.metricType = "Performance"
        /\ anomaly.metric = "Load Time"
        /\ Greater(anomaly.percentageChange, Zero)
        /\ bounceData # <<>>
        /\ Greater(bounceData[1].bounceRate,
                   Mul(bounceData[1].baselineBounceRate, Rat(15, 10)))
     THEN <<[metric |-> "Bounce Rate",
             value |-> bounceData[1].bounceRate,
             change |-> changeOf(bounceData[1].bounceRate,
                                 bounceData[1].baselineBounceRate),
             correlation |-> "load_time_up_bounce_rate_up"]>>
     ELSE <<>>)

\* the correlated metrics of one anomaly, given what the two lookups answered
correlatedMetricsOf(anomaly, conversionData, bounceData) ==
    (IF /\ anomaly.metricType = "Traffic"
        /\ Greater(anomaly.percentageChange, Zero)
        /\ conversionData # <<>>
        /\ Less(conversionData[1].conversionRate,
                Mul(conversionData[1].baselineRate, Rat(9, 10)))
     THEN <<[metric |-> "Conversion Rate",
             value |-> conversionData[1].conversionRate,
             change |-> changeOf(conversionData[1].conversionRate,
                                 conversionData[1].baselineRate),
             correlation |-> "traffic_up_conversions_down"]>>
     ELSE <<>>)
      \o
    (IF /\ anomaly.metricType = "Performance"
        /\ anomaly.metric = "Load Time"
        /\ Greater(anomaly.percentageChange, Zero)
        /\ bounceData # <<>>
        /\ Greater(bounceData[1].bounceRate,
                   Mul(bounceData[1].baselineBounceRate, Rat(11, 10)))
     THEN <<[metric |-> "Bounce Rate",
             value |-> bounceData[1].bounceRate,
             change |-> changeOf(bounceData[1].bounceRate,
                                 bounceData[1].baselineBounceRate),
             correlation |-> "load_time_up_bounce_rate_up"]>>
     ELSE <<>>)

correlatedOf(anomaly, ord) ==
    correlatedMetricsOf(
        anomaly,
        IF anomaly.metricType = "Traffic" /\ Greater(anomaly.percentageChange, Zero)
        THEN getConversionDataForPage(anomaly.page, anomaly.timestamp, ord)
        ELSE <<>>,
        IF /\ anomaly.metricType = "Performance" /\ anomaly.metric = "Load Time"
           /\ Greater(anomaly.percentageChange, Zero)
        THEN getBounceRateForPage(anomaly.page, anomaly.timestamp, ord)
        ELSE <<>>)

\* an entry for every anomaly, with or without correlated metrics
correlationEntryAlways(anomaly, correlatedMetrics) ==
    <<[primaryAnomaly |-> anomaly, correlatedMetrics |-> correlatedMetrics]>>

\* if (correlatedMetrics.length > 0) correlations.push(...)
correlationEntry(anomaly, correlatedMetrics) ==
    IF Len(correlatedMetrics) > 0
    THEN <<[primaryAnomaly |-> anomaly, correlatedMetrics |-> correlatedMetrics]>>
    ELSE <<>>

analyzeCorrelations(anomalies, ord) ==
    LET entry(anomaly) == correlationEntry(anomaly, correlatedOf(anomaly, ord))
    IN  Flatten([i \in 1..Len(anomalies) |-> entry(anomalies[i])])

----------------------------------------------------------------------------
(* Strings of numbers and dates *)

RECURSIVE Pow10(_)
Pow10(f) == IF f = 0 THEN 1 ELSE 10 * Pow10(f - 1)

RECURSIVE Digits(_, _)
Digits(n, f) == IF f = 0 THEN "" ELSE Digits(n \div 10, f - 1) \o ToString(n % 10)

\* Number.prototype.toFixed(f)
toFixed(x, f) ==
    IF IsNaN(x) THEN "NaN"
    ELSE IF ~IsFinite(x) THEN (IF x.n < 0 THEN "-Infinity" ELSE "Infinity")
    ELSE LET n == Round(Mul(Abs(x), FromInt(Pow10(f))))
         IN  (IF x.n < 0 THEN "-" ELSE "")
               \o ToString(n \div Pow10(f))
               \o (IF f = 0 THEN "" ELSE "." \o Digits(n % Pow10(f), f))

\* the instant t in minutes
minutesOf(t) == (t * 60) \div Hour

\* Date.prototype.toISOString of the instant of that many minutes: its day,
\* hour and minute
isoOfMinutes(minutes) ==
    "D" \o ToString(minutes \div (24 * 60))
      \o "T" \o Digits((minutes \div 60) % 24, 2)
      \o ":" \o Digits(minutes % 60, 2) \o ":00.000Z"

toISOString(t) == isoOfMinutes(minutesOf(t))

LastInstant == (StartClock + 24 * Hour) * 2

\* the ISO string of every instant of the model
IsoStrings == [t \in 0..LastInstant |-> toISOString(t)]

\* new Date(iso).getTime()
dateParse(iso) == CHOOSE t \in 0..LastInstant : IsoStrings[t] = iso

----------------------------------------------------------------------------
(* InsightsService: one insight per anomaly.  A text is the sequence of the
   pieces it is put together from; the dash of the Instagram text is
   written -- here. *)

\* x || fallback
OrElse(x, fallback) == IF x = Undefined \/ x = "" THEN fallback ELSE x

\* correlation?.correlatedMetrics?.some(m => m.correlation === tag);
\* correlation is <<>> (undefined) or <<c>>
hasCorrelation(correlation, tag) ==
    /\ correlation # <<>>
    /\ \E i \in 1..Len(correlation[1].correlatedMetrics) :
           correlation[1].correlatedMetrics[i].correlation = tag

\* correlatedMetrics.find(m => m.correlation === tag), when there is one
findCorrelated(correlation, tag) ==
    LET ms == correlation[1].correlatedMetrics
    IN  ms[firstIndex({i \in 1..Len(ms) : ms[i].correlation = tag})]

\* a traffic insight that is a surge whatever the change
generateTrafficSurgeInsight(anomaly, change, correlation) ==
    LET referrer == OrElse(anomaly.context.referrer, "Unknown")
        region == OrElse(anomaly.context.region, "All regions")
        up == Greater(anomaly.percentageChange, Zero)
        down == hasCorrelation(correlation, "traffic_up_conversions_down")
        head == <<"Traffic ", IF up THEN "surge" ELSE "drop", " of ", change,
                  " detected on ", anomaly.page, ". ">>
        body ==
            IF ~up
            THEN <<"Significant drop in traffic from ", referrer,
                   ". Page may have lost visibility or interest has declined.">>
            ELSE IF referrer = "Instagram"
            THEN <<"Organic traffic spike from Instagram campaign -- likely viral post engagement. Primary traffic from ",
                   region, ".">>
            ELSE IF referrer = "Google"
            THEN <<"Significant increase in organic search traffic. Page may have improved search ranking.">>
            ELSE <<"Traffic increase from ", referrer,
                   ". Monitor conversion rates to ensure quality traffic.">>
        action ==
            IF ~up
            THEN <<"Audit SEO performance, check for technical issues, and consider refreshing content or running paid campaigns.">>
            ELSE IF referrer = "Instagram"
            THEN <<"Increase ad spend for ", region,
                   " audiences. Create follow-up content to maintain momentum.">>
            ELSE IF referrer = "Google"
            THEN <<"Analyze SEO performance, ensure content quality, and consider increasing paid search budget.">>
            ELSE <<"Verify campaign performance and ensure sufficient inventory for increased demand.">>
    IN  [type |-> "Traffic Surge",
         metric |-> "PageViews",
         page |-> anomaly.page,
         change |-> change,
         businessInsight |->
             head \o body \o
               (IF up /\ down
                THEN <<" However, conversion rate has dropped, indicating potential UX or pricing issues.">>
                ELSE <<>>),
         suggestedAction |->
             action \o
               (IF up /\ down
                THEN <<" Review pricing competitiveness and checkout flow.">>
                ELSE <<>>),
         impactScore |-> 0,
         detectedAt |-> toISOString(anomaly.timestamp),
         context |-> [referrer |-> referrer, region |-> region,
                      deviceType |-> anomaly.context.deviceType]]

generateTrafficInsight(anomaly, change, correlation) ==
    LET referrer == OrElse(anomaly.context.referrer, "Unknown")
        region == OrElse(anomaly.context.region, "All regions")
        up == Greater(anomaly.percentageChange, Zero)
        down == hasCorrelation(correlation, "traffic_up_conversions_down")
        head == <<"Traffic ", IF up THEN "surge" ELSE "drop", " of ", change,
                  " detected on ", anomaly.page, ". ">>
        body ==
            IF ~up
            THEN <<"Significant drop in traffic from ", referrer,
                   ". Page may have lost visibility or interest has declined.">>
            ELSE IF referrer = "Instagram"
            THEN <<"Organic traffic spike from Instagram campaign -- likely viral post engagement. Primary traffic from ",
                   region, ".">>
            ELSE IF referrer = "Google"
            THEN <<"Significant increase in organic search traffic. Page may have improved search ranking.">>
            ELSE <<"Traffic increase from ", referrer,
                   ". Monitor conversion rates to ensure quality traffic.">>
        action ==
            IF ~up
            THEN <<"Audit SEO performance, check for technical issues, and consider refreshing content or running paid campaigns.">>
            ELSE IF referrer = "Instagram"
            THEN <<"Increase ad spend for ", region,
                   " audiences. Create follow-up content to maintain momentum.">>
            ELSE IF referrer = "Google"
            THEN <<"Analyze SEO performance, ensure content quality, and consider increasing paid search budget.">>
            ELSE <<"Verify campaign performance and ensure sufficient inventory for increased demand.">>
    IN  [type |-> IF up THEN "Traffic Surge" ELSE "Traffic Drop",
         metric |-> "PageViews",
         page |-> anomaly.page,
         change |-> change,
         businessInsight |->
             head \o body \o
               (IF up /\ down
                THEN <<" However, conversion rate has dropped, indicating potential UX or pricing issues.">>
                ELSE <<>>),
         suggestedAction |->
             action \o
               (IF up /\ down
                THEN <<" Review pricing competitiveness and checkout flow.">>
                ELSE <<>>),
         impactScore |-> 0,
         detectedAt |-> toISOString(anomaly.timestamp),
         context |-> [referrer |-> referrer, region |-> region,
                      deviceType |-> anomaly.context.deviceType]]

generatePerformanceInsight(anomaly, change, correlation) ==
    LET deviceType == OrElse(anomaly.context.deviceType, "All devices")
        loadTimeSeconds == toFixed(Div(anomaly.currentValue, FromInt(1000)), 1)
        bounced == hasCorrelation(correlation, "load_time_up_bounce_rate_up")
        bounceChange == findCorrelated(correlation, "load_time_up_bounce_rate_up")
        head == <<"Performance degradation detected: ", deviceType,
                  " load time increased by ", change, " (now ", loadTimeSeconds, "s). ">>
        body ==
            IF deviceType = "Mobile"
            THEN <<"Mobile load time significantly increased. Images may be unoptimized affecting conversion.">>
            ELSE <<"Load time increase may be impacting user experience and conversions.">>
        action ==
            IF deviceType = "Mobile"
            THEN <<"Optimize images for mobile (WebP format, lazy loading), check CDN performance, and review recent code deployments.">>
            ELSE <<"Check server performance, optimize assets, review CDN configuration, and investigate recent deployments.">>
    IN  [type |-> "Performance Issue",
         metric |-> "Load Time",
         page |-> anomaly.page,
         change |-> change,
         businessInsight |->
             head \o body \o
               (IF bounced
                THEN <<" Bounce rate increased by ", toFixed(bounceChange.change, 0),
                       "% in correlation, confirming performance impact.">>
                ELSE <<>>),
         suggestedAction |->
             action \o
               (IF bounced
                THEN <<" Priority: Fix performance issues immediately to prevent further engagement loss.">>
                ELSE <<>>),
         impactScore |-> 0,
         detectedAt |-> toISOString(anomaly.timestamp),
         context |-> [deviceType |-> deviceType,
                      bounceRateIncrease |->
                          (IF bounced THEN toFixed(bounceChange.change, 0)
                                      ELSE Undefined) \o "%"]]

generateEngagementInsight(anomaly, change, correlation) ==
    LET page == anomaly.page
        sessionDurationMinutes == toFixed(Div(anomaly.currentValue, FromInt(60)), 1)
        head == <<"Engagement drop detected: Average session duration decreased by ",
                  change, " (now ", sessionDurationMinutes, " minutes). ">>
    IN  [type |-> "Engagement Drop",
         metric |-> "Session Duration",
         page |-> page,
         change |-> change,
         businessInsight |->
             head \o
               (IF includes(page, "checkout")
                THEN <<"Users dropping off during checkout. Possible payment gateway issue or confusing checkout flow.">>
                ELSE <<"Users spending less time on page. Content may not be engaging or page may have usability issues.">>),
         suggestedAction |->
             IF includes(page, "checkout")
             THEN <<"Immediately verify Razorpay integration, check error logs, and consider A/B testing a simplified checkout process.">>
             ELSE <<"Review page content, check for broken elements, improve CTAs, and analyze user flow.">>,
         impactScore |-> 0,
         detectedAt |-> toISOString(anomaly.timestamp),
         context |-> [deviceType |-> anomaly.context.deviceType,
                      region |-> anomaly.context.region]]

generateConversionInsight(anomaly, change, correlation) ==
    LET page == anomaly.page
        conversionRate == toFixed(anomaly.currentValue, 2)
        head == <<"Conversion rate dropped by ", change, " (now ", conversionRate, "%). ">>
        crowded == hasCorrelation(correlation, "traffic_up_conversions_down")
    IN  [type |-> "Conversion Drop",
         metric |-> "Conversion Rate",
         page |-> page,
         change |-> change,
         businessInsight |->
             head \o
               (IF crowded
                THEN <<"High traffic but low conversions. Possible pricing, availability, or trust issues.">>
                ELSE <<"Conversion rate decline may indicate pricing issues, lack of trust, or technical problems.">>),
         suggestedAction |->
             IF crowded
             THEN <<"Review package pricing competitiveness, ensure availability is shown correctly, and add more customer reviews/testimonials.">>
             ELSE <<"Review pricing strategy, add trust signals (reviews, badges), verify booking flow, and check for errors.">>,
         impactScore |-> 0,
         detectedAt |-> toISOString(anomaly.timestamp),
         context |-> [referrer |-> anomaly.context.referrer,
                      deviceType |-> anomaly.context.deviceType]]

generateBounceRateInsight(anomaly, change, correlation) ==
    LET bounceRate == toFixed(anomaly.currentValue, 1)
    IN  [type |-> "Engagement Drop",
         metric |-> "Bounce Rate",
         page |-> anomaly.page,
         change |-> change,
         businessInsight |->
             <<"Bounce rate increased by ", change, " (now ", bounceRate, "%). ",
               "Users leaving page quickly may indicate content mismatch, slow load times, or poor user experience.">>,
         suggestedAction |->
             <<"Improve page content relevance, optimize load times, enhance mobile experience, and review landing page design.">>,
         impactScore |-> 0,
         detectedAt |-> toISOString(anomaly.timestamp),
         context |-> [deviceType |-> anomaly.context.deviceType]]

generateErrorRateInsight(anomaly, change, correlation) ==
    LET errorRate == toFixed(anomaly.currentValue, 2)
    IN  [type |-> "Performance Issue",
         metric |-> "Error Rate",
         page |-> anomaly.page,
         change |-> change,
         businessInsight |->
             <<"Error rate increased by ", change, " (now ", errorRate, "%). ",
               "Increased error rate indicates technical issues that may be preventing bookings and damaging user trust.">>,
         suggestedAction |->
             <<"Immediately check server logs, verify API endpoints, test payment gateway, and review recent deployments. Consider rolling back if recent changes were made.">>,
         impactScore |-> 0,
         detectedAt |-> toISOString(anomaly.timestamp),
         context |-> [deviceType |-> anomaly.context.deviceType,
                      region |-> anomaly.context.region]]

\* a dispatch that falls back to the traffic insight for a pair it does not
\* know
generateInsightOrTraffic(anomaly, correlations) ==
    LET same(c) == /\ c.primaryAnomaly.page = anomaly.page
                   /\ c.primaryAnomaly.timestamp = anomaly.timestamp
        found == firstIndex({i \in 1..Len(correlations) : same(correlations[i])})
        correlation == IF found = 0 THEN <<>> ELSE <<correlations[found]>>
        changeSign == IF ~Less(anomaly.percentageChange, Zero)
                         /\ ~IsNaN(anomaly.percentageChange)
                      THEN "+" ELSE ""
        change == changeSign \o toFixed(anomaly.percentageChange, 0) \o "%"
    IN  IF anomaly.metricType = "Traffic" /\ anomaly.metric = "PageViews"
        THEN <<generateTrafficInsight(anomaly, change, correlation)>>
        ELSE IF anomaly.metricType = "Performance" /\ anomaly.metric = "Load Time"
        THEN <<generatePerformanceInsight(anomaly, change, correlation)>>
        ELSE IF anomaly.metricType = "UserActions" /\ anomaly.metric = "Session Duration"
        THEN <<generateEngagementInsight(anomaly, change, correlation)>>
        ELSE IF anomaly.metricType = "Conversion" /\ anomaly.metric = "Conversion Rate"
        THEN <<generateConversionInsight(anomaly, change, correlation)>>
        ELSE IF anomaly.metricType = "Engagement" /\ anomaly.metric = "Bounce Rate"
        THEN <<generateBounceRateInsight(anomaly, change, correlation)>>
        ELSE IF anomaly.metricType = "Performance" /\ anomaly.metric = "Error Rate"
        THEN <<generateErrorRateInsight(anomaly, change, correlation)>>
        ELSE <<generateTrafficInsight(anomaly, change, correlation)>>

\* null is <<>>, an insight is <<insight>>
generateInsightForAnomaly(anomaly, correlations) ==
    LET same(c) == /\ c.primaryAnomaly.page = anomaly.page
                   /\ c.primaryAnomaly.timestamp = anomaly.timestamp
        found == firstIndex({i \in 1..Len(correlations) : same(correlations[i])})
        correlation == IF found = 0 THEN <<>> ELSE <<correlations[found]>>
        changeSign == IF ~Less(anomaly.percentageChange, Zero)
                         /\ ~IsNaN(anomaly.percentageChange)
                      THEN "+" ELSE ""
        change == changeSign \o toFixed(anomaly.percentageChange, 0) \o "%"
    IN  IF anomaly.metricType = "Traffic" /\ anomaly.metric = "PageViews"
        THEN <<generateTrafficInsight(anomaly, change, correlation)>>
        ELSE IF anomaly.metricType = "Performance" /\ anomaly.metric = "Load Time"
        THEN <<generatePerformanceInsight(anomaly, change, correlation)>>
        ELSE IF anomaly.metricType = "UserActions" /\ anomaly.metric = "Session Duration"
        THEN <<generateEngagementInsight(anomaly, change, correlation)>>
        ELSE IF anomaly.metricType = "Conversion" /\ anomaly.metric = "Conversion Rate"
        THEN <<generateConversionInsight(anomaly, change, correlation)>>
        ELSE IF anomaly.metricType = "Engagement" /\ anomaly.metric = "Bounce Rate"
        THEN <<generateBounceRateInsight(anomaly, change, correlation)>>
        ELSE IF anomaly.metricType = "Performance" /\ anomaly.metric = "Error Rate"
        THEN <<generateErrorRateInsight(anomaly, change, correlation)>>
        ELSE <<>>

\* the criticality without the branch for Traffic
criticalityWithoutTraffic(type) ==
    IF includes(type, "Conversion") \/ includes(type, "Error") THEN 90
    ELSE IF includes(type, "Performance") \/ includes(type, "Engagement") THEN 70
    ELSE 50

\* insight.type.includes(...) picks the criticality
criticalityOf(type) ==
    IF includes(type, "Conversion") \/ includes(type, "Error") THEN 90
    ELSE IF includes(type, "Performance") \/ includes(type, "Engagement") THEN 70
    ELSE IF includes(type, "Traffic") THEN 60
    ELSE 50

\* a score that looks the anomaly up by its page alone
calculateImpactScoreByPage(insight, allAnomalies, now) ==
    LET same(a) == a.page = insight.page
        found == firstIndex({i \in 1..Len(allAnomalies) : same(allAnomalies[i])})
        anomaly == allAnomalies[found]
        magnitudeScore == Min(Div(Abs(anomaly.percentageChange), FromInt(5)),
                              FromInt(100))
        magnitudeWeight == Rat(3, 10)
        criticalityScore == FromInt(criticalityOf(insight.type))
        criticalityWeight == Rat(4, 10)
        detectedAt == dateParse(insight.detectedAt)
        hoursAgo == Div(FromInt(now - detectedAt), FromInt(Hour))
        recencyScore == Max(Zero, Sub(FromInt(100), Mul(hoursAgo, FromInt(10))))
        recencyWeight == Rat(3, 10)
        impactScore == Add(Add(Mul(magnitudeScore, magnitudeWeight),
                               Mul(criticalityScore, criticalityWeight)),
                           Mul(recencyScore, recencyWeight))
    IN  IF found = 0 THEN DefaultScore ELSE Round(impactScore)

\* a score whose recency goes on falling below 0
calculateImpactScoreAging(insight, allAnomalies, now) ==
    LET same(a) == /\ a.page = insight.page
                   /\ toISOString(a.timestamp) = insight.detectedAt
        found == firstIndex({i \in 1..Len(allAnomalies) : same(allAnomalies[i])})
        anomaly == allAnomalies[found]
        magnitudeScore == Min(Div(Abs(anomaly.percentageChange), FromInt(5)),
                              FromInt(100))
        magnitudeWeight == Rat(3, 10)
        criticalityScore == FromInt(criticalityOf(insight.type))
        criticalityWeight == Rat(4, 10)
        detectedAt == dateParse(insight.detectedAt)
        hoursAgo == Div(FromInt(now - detectedAt), FromInt(Hour))
        recencyScore == Sub(FromInt(100), Mul(hoursAgo, FromInt(10)))
        recencyWeight == Rat(3, 10)
        impactScore == Add(Add(Mul(magnitudeScore, magnitudeWeight),
                               Mul(criticalityScore, criticalityWeight)),
                           Mul(recencyScore, recencyWeight))
    IN  IF found = 0 THEN DefaultScore ELSE Round(impactScore)

calculateImpactScore(insight, allAnomalies, now) ==
    LET same(a) == /\ a.page = insight.page
                   /\ toISOString(a.timestamp) = insight.detectedAt
        found == firstIndex({i \in 1..Len(allAnomalies) : same(allAnomalies[i])})
        anomaly == allAnomalies[found]
        magnitudeScore == Min(Div(Abs(anomaly.percentageChange), FromInt(5)),
                              FromInt(100))
        magnitudeWeight == Rat(3, 10)
        criticalityScore == FromInt(criticalityOf(insight.type))
        criticalityWeight == Rat(4, 10)
        detectedAt == dateParse(insight.detectedAt)
        hoursAgo == Div(FromInt(now - detectedAt), FromInt(Hour))
        recencyScore == Max(Zero, Sub(FromInt(100), Mul(hoursAgo, FromInt(10))))
        recencyWeight == Rat(3, 10)
        impactScore == Add(Add(Mul(magnitudeScore, magnitudeWeight),
                               Mul(criticalityScore, criticalityWeight)),
                           Mul(recencyScore, recencyWeight))
    IN  IF found = 0 THEN DefaultScore ELSE Round(impactScore)

\* a deduplication whose key leaves out the metric
deduplicateByPageAndTime(anomalies) ==
    LET key(anomaly) == <<anomaly.page, anomaly.timestamp>>
        RECURSIVE loop(_, _, _)
        loop(i, seen, unique) ==
            IF i > Len(anomalies) THEN unique
            ELSE IF key(anomalies[i]) \notin seen
            THEN loop(i + 1, seen \cup {key(anomalies[i])},
                      Append(unique, anomalies[i]))
            ELSE loop(i + 1, seen, unique)
    IN  loop(1, {}, <<>>)

\* a deduplication that compares an anomaly with the one before it only
deduplicateAdjacent(anomalies) ==
    LET keep(i) == i = 1 \/ <<anomalies[i].page, anomalies[i].metric,
                               anomalies[i].timestamp>>
                             # <<anomalies[i - 1].page, anomalies[i - 1].metric,
                                 anomalies[i - 1].timestamp>>
        RECURSIVE loop(_)
        loop(i) == IF i > Len(anomalies) THEN <<>>
                   ELSE (IF keep(i) THEN <<anomalies[i]>> ELSE <<>>) \o loop(i + 1)
    IN  loop(1)

\* `${anomaly.page}-${anomaly.metric}-${anomaly.timestamp.getTime()}`
dedupKey(anomaly) ==
    anomaly.page \o "-" \o anomaly.metric \o "-" \o ToString(anomaly.timestamp)

\* a deduplication that keeps the last anomaly of every key
deduplicateKeepingLast(anomalies) ==
    LET RECURSIVE loop(_)
        loop(i) ==
            IF i > Len(anomalies) THEN <<>>
            ELSE (IF \A j \in (i + 1)..Len(anomalies) :
                        dedupKey(anomalies[j]) # dedupKey(anomalies[i])
                  THEN <<anomalies[i]>> ELSE <<>>)
                   \o loop(i + 1)
    IN  loop(1)

deduplicateAnomalies(anomalies) ==
    LET RECURSIVE loop(_, _, _)
        loop(i, seen, unique) ==
            IF i > Len(anomalies) THEN unique
            ELSE IF dedupKey(anomalies[i]) \notin seen
            THEN loop(i + 1, seen \cup {dedupKey(anomalies[i])},
                      Append(unique, anomalies[i]))
            ELSE loop(i + 1, seen, unique)
    IN  loop(1, {}, <<>>)

\* Array.prototype.sort((a, b) => b.impactScore - a.impactScore): stable,
\* the higher score first
\* x put into the sorted list rest, before its first element with a lower or
\* equal score
insertAt(x, rest, at) ==
    IF at = 0 THEN Append(rest, x)
    ELSE SubSeq(rest, 1, at - 1) \o <<x>> \o SubSeq(rest, at, Len(rest))

insertByScore(x, rest) ==
    insertAt(x, rest,
             firstIndex({i \in 1..Len(rest) : rest[i].impactScore <= x.impactScore}))

RECURSIVE sortByScore(_)
sortByScore(insights) ==
    IF insights = <<>> THEN <<>>
    ELSE insertByScore(Head(insights), sortByScore(Tail(insights)))

\* a slice that keeps one element too many
sliceOneMore(s, n) == SubSeq(s, 1, IF Len(s) < n + 1 THEN Len(s) ELSE n + 1)

\* slice(0, n)
slice(s, n) == SubSeq(s, 1, IF Len(s) < n THEN Len(s) ELSE n)

\* the insights of the anomalies, unscored
insightsOf(uniqueAnomalies, correlations) ==
    LET insightOf(anomaly) == generateInsightForAnomaly(anomaly, correlations)
    IN  Flatten([i \in 1..Len(uniqueAnomalies) |-> insightOf(uniqueAnomalies[i])])

\* insights.map(insight => ({...insight, impactScore: ...})).sort(...)
scoreAndSort(insights, uniqueAnomalies, now) ==
    LET score(insight) ==
            [insight EXCEPT !.impactScore =
                 calculateImpactScore(insight, uniqueAnomalies, now)]
    IN  sortByScore([i \in 1..Len(insights) |-> score(insights[i])])

\* prisma.businessInsight.create({data}) for one insight
insightRow(insight) ==
    [metricType |-> insight.type,
     page |-> insight.page,
     insightText |-> insight.businessInsight,
     suggestedAction |-> insight.suggestedAction,
     impactScore |-> insight.impactScore,
     timestamp |-> dateParse(insight.detectedAt)]

\* a store that leaves out the first insight
storeInsightsAfterFirst(insights, failAt) ==
    [written |-> [i \in 1..(IF failAt = 0 THEN Len(insights) - 1 ELSE failAt - 1) |->
                      insightRow(insights[i + 1])],
     threw |-> failAt # 0]

\* storeInsights writes the rows one after the other; failAt = 0: every
\* create succeeds; failAt = i: the create of insight i throws
storeInsights(insights, failAt) ==
    [written |-> [i \in 1..(IF failAt = 0 THEN Len(insights) ELSE failAt - 1) |->
                      insightRow(insights[i])],
     threw |-> failAt # 0]

responseDto(insight) ==
    [type |-> insight.type,
     metric |-> insight.metric,
     page |-> insight.page,
     change |-> insight.change,
     businessInsight |-> insight.businessInsight,
     suggestedAction |-> insight.suggestedAction,
     impactScore |-> insight.impactScore,
     detectedAt |-> insight.detectedAt,
     context |-> insight.context]

\* what storeInsights did when the controller called it, nothing when it
\* did not
stored(insights, failAt) ==
    IF Len(insights) > 0 THEN storeInsights(insights, failAt)
    ELSE [written |-> <<>>, threw |-> FALSE]

\* a controller that calls storeInsights whatever the list holds
getBusinessInsightsAlwaysStoring(insights, store, now) ==
    [storeCalled |-> TRUE,
     storeThrew |-> store.threw,
     written |-> store.written,
     response |-> [success |-> TRUE,
                   timestamp |-> toISOString(now),
                   cachedUntil |-> isoOfMinutes(minutesOf(now) + 15),
                   insights |-> [i \in 1..Len(insights) |-> responseDto(insights[i])]]]

\* a controller without the try/catch around storeInsights: the request fails
\* when the store throws
getBusinessInsightsNoCatch(insights, store, now) ==
    [storeCalled |-> Len(insights) > 0,
     storeThrew |-> store.threw,
     written |-> store.written,
     response |-> IF store.threw
                  THEN [success |-> FALSE, timestamp |-> toISOString(now),
                        cachedUntil |-> toISOString(now), insights |-> <<>>]
                  ELSE [success |-> TRUE,
                        timestamp |-> toISOString(now),
                        cachedUntil |-> isoOfMinutes(minutesOf(now) + 15),
                        insights |-> [i \in 1..Len(insights) |-> responseDto(insights[i])]]]

\* InsightsController.getBusinessInsights, given what generateBusinessInsights
\* returned and what the store did: what it answers
getBusinessInsights(insights, store, now) ==
    [storeCalled |-> Len(insights) > 0,
     storeThrew |-> store.threw,
     written |-> store.written,
     response |-> [success |-> TRUE,
                   timestamp |-> toISOString(now),
                   cachedUntil |-> isoOfMinutes(minutesOf(now) + 15),
                   insights |-> [i \in 1..Len(insights) |-> responseDto(insights[i])]]]

----------------------------------------------------------------------------
(* The state machine *)

NoRun ==
    [done |-> FALSE, now |-> 0, scoreNow |-> 0,
     aggregatedAnomalies |-> <<>>, granularAnomalies |-> <<>>,
     uniqueAnomalies |-> <<>>, correlations |-> <<>>, scoredInsights |-> <<>>,
     result |-> <<>>, storeCalled |-> FALSE, storeThrew |-> FALSE,
     response |-> <<>>]

Init ==
    /\ \E T \in SubsetsUpTo(TaggedRows, MaxRecords) :
         /\ pageViewsHourly = RowsOf(T, "pageViews")
         /\ userActionsHourly = RowsOf(T, "userActions")
         /\ performanceHourly = RowsOf(T, "performance")
    /\ OneRowPerKey(pageViewsHourly)
    /\ OneRowPerKey(userActionsHourly)
    /\ OneRowPerKey(performanceHourly)
    /\ businessInsight = <<>>
    /\ clock = StartClock
    /\ run = NoRun

\* time passes
Tick ==
    /\ clock < StartClock + MaxTicks
    /\ clock' = clock + 1
    /\ UNCHANGED <<tables, businessInsight, run>>

\* GET /insights/business, from the request to the response.  The detectors
\* read the clock when the request comes in, calculateImpactScore reads it
\* again (scoreNow: a request is far shorter than a unit of the clock, so the
\* clock has ticked at most once in between); the rows of a query come in the
\* order ord; the create of insight failAt throws (0: none does).
GetBusinessInsights ==
    /\ Len(businessInsight) + TopN <= MaxStored
    /\ \E ord \in RowOrders :
       \E aggregatedAnomalies \in {detectAnomalies(clock, ord)},
          granularAnomalies \in {detectGranularAnomalies(clock, ord)} :
       \E uniqueAnomalies \in
              {deduplicateAnomalies(aggregatedAnomalies \o granularAnomalies)} :
       \E correlations \in {analyzeCorrelations(uniqueAnomalies, ord)} :
       \E unscored \in {insightsOf(uniqueAnomalies, correlations)} :
       \E scoreNow \in {t \in {clock, clock + 1} : t <= StartClock + MaxTicks} :
       \E scoredInsights \in {scoreAndSort(unscored, uniqueAnomalies, scoreNow)} :
       \E insights \in {slice(scoredInsights, TopN)} :
       \E failAt \in 0..Len(insights) :
       \E store \in {stored(insights, failAt)} :
       \E answer \in {getBusinessInsights(insights, store, scoreNow)} :
         /\ businessInsight' = businessInsight \o answer.written
         /\ clock' = scoreNow
         /\ run' = [done |-> TRUE, now |-> clock, scoreNow |-> scoreNow,
                    aggregatedAnomalies |-> aggregatedAnomalies,
                    granularAnomalies |-> granularAnomalies,
                    uniqueAnomalies |-> uniqueAnomalies,
                    correlations |-> correlations,
                    scoredInsights |-> scoredInsights,
                    result |-> insights,
                    storeCalled |-> answer.storeCalled,
                    storeThrew |-> answer.storeThrew,
                    response |-> answer.response]
    /\ UNCHANGED tables

Next == Tick \/ GetBusinessInsights

Spec == Init /\ [][Next]_vars

\* the same program over the rows by dimension
InitByDimension ==
    /\ \E T \in SubsetsUpTo(TaggedRowsByDimension, MaxRecords) :
         /\ pageViewsHourly = RowsOf(T, "pageViews")
         /\ userActionsHourly = RowsOf(T, "userActions")
         /\ performanceHourly = RowsOf(T, "performance")
    /\ OneRowPerKey(pageViewsHourly)
    /\ OneRowPerKey(userActionsHourly)
    /\ OneRowPerKey(performanceHourly)
    /\ businessInsight = <<>>
    /\ clock = StartClock
    /\ run = NoRun

SpecByDimension == InitByDimension /\ [][Next]_vars

\* the same program over the rows of one page that has page views
InitOfPage ==
    /\ pageViewsHourly \in {PageViewsSteady, PageViewsSurging}
    /\ \E T \in SubsetsUpTo(TaggedRowsOfPage, MaxRecords) :
         /\ userActionsHourly = RowsOf(T, "userActions")
         /\ performanceHourly = RowsOf(T, "performance")
    /\ OneRowPerKey(userActionsHourly)
    /\ OneRowPerKey(performanceHourly)
    /\ businessInsight = <<>>
    /\ clock = StartClock
    /\ run = NoRun

SpecOfPage == InitOfPage /\ [][Next]_vars

\* the same program over the rows of one page with baselines of 0
InitFromZero ==
    /\ pageViewsHourly \in {PageViewsFromZero, PageViewsSurging}
    /\ \E T \in SubsetsUpTo(TaggedRowsFromZero, MaxRecords) :
         /\ userActionsHourly = RowsOf(T, "userActions")
         /\ performanceHourly = RowsOf(T, "performance")
    /\ OneRowPerKey(userActionsHourly)
    /\ OneRowPerKey(performanceHourly)
    /\ businessInsight = <<>>
    /\ clock = StartClock
    /\ run = NoRun

SpecFromZero == InitFromZero /\ [][Next]_vars

\* the same program over the rows of one page and its combinations in one hour
InitOfHour ==
    /\ \E T \in SubsetsUpTo(TaggedRowsOfHour, MaxRecords) :
         /\ pageViewsHourly = PageViewsOfBaseline \cup RowsOf(T, "pageViews")
         /\ userActionsHourly = RowsOf(T, "userActions")
    /\ performanceHourly = {}
    /\ OneRowPerKey(pageViewsHourly)
    /\ OneRowPerKey(userActionsHourly)
    /\ businessInsight = <<>>
    /\ clock = StartClock
    /\ run = NoRun

SpecOfHour == InitOfHour /\ [][Next]_vars

\* generateInsightForAnomaly called on an anomaly of any metric type and
\* metric and on a list of correlations: `anomaly: any, correlations: any[]`
MetricTypes ==
    {"Traffic", "Performance", "UserActions", "Conversion", "Engagement", "Revenue"}
Metrics ==
    {"PageViews", "Load Time", "Session Duration", "Conversion Rate",
     "Bounce Rate", "Error Rate", "Refunds"}

\* an anomaly of value v against a baseline of mean 10
AnomalyOf(metricType, metric, v) ==
    [page |-> CoorgMobile.page,
     metricType |-> metricType,
     metric |-> metric,
     currentValue |-> FromInt(v),
     baselineMean |-> FromInt(10),
     baselineStdDev |-> Sqrt(Zero),
     percentageChange |-> Mul(Div(Sub(FromInt(v), FromInt(10)), FromInt(10)),
                              FromInt(100)),
     timestamp |-> 29 * Hour,
     context |-> [deviceType |-> CoorgMobile.deviceType,
                  region |-> CoorgMobile.region,
                  referrer |-> CoorgMobile.referrer,
                  pageCategory |-> CoorgMobile.pageCategory]]

Anomalies ==
    {AnomalyOf(t, m, v) : t \in MetricTypes, m \in Metrics, v \in {5, 22}}

InitOfAnomaly ==
    /\ pageViewsHourly = {}
    /\ userActionsHourly = {}
    /\ performanceHourly = {}
    /\ businessInsight = <<>>
    /\ clock = StartClock
    /\ \E anomaly \in Anomalies :
         run = [done |-> FALSE, anomaly |-> anomaly, correlations |-> <<>>,
                insight |-> <<>>, allAnomalies |-> <<>>, scorings |-> <<>>]

GenerateInsightForAnomaly ==
    /\ "anomaly" \in DOMAIN run
    /\ ~run.done
    /\ run' = [run EXCEPT !.done = TRUE,
                          !.insight = generateInsightForAnomaly(run.anomaly,
                                                                run.correlations)]
    /\ UNCHANGED <<tables, businessInsight, clock>>

\* the lists calculateImpactScore is given with the insight of an anomaly:
\* none, the anomaly, an anomaly of another page or of another hour, and the
\* anomaly behind one of another page
AnomalyLists(anomaly) ==
    {<<>>,
     <<anomaly>>,
     <<[anomaly EXCEPT !.page = CheckoutMobile.page]>>,
     <<[anomaly EXCEPT !.timestamp = @ - Hour]>>,
     <<[anomaly EXCEPT !.page = CheckoutMobile.page], anomaly>>}

\* new Date() when the score is computed: 3, 3.5, 6, 9.5, 10, 10.5, 11 and
\* 16 hours after the anomaly of 29 * Hour
ScoringTimes ==
    {StartClock, StartClock + 1, StartClock + 3 * Hour, StartClock + 13,
     StartClock + 7 * Hour, StartClock + 15, StartClock + 8 * Hour,
     StartClock + 13 * Hour}

\* calculateImpactScore on the insight of the anomaly, now and later again on
\* the same list
CalculateImpactScore ==
    /\ "scorings" \in DOMAIN run
    /\ run.done
    /\ run.insight # <<>>
    /\ Len(run.scorings) < MaxScorings
    /\ \E now \in ScoringTimes :
       \E allAnomalies \in (IF run.scorings = <<>> THEN AnomalyLists(run.anomaly)
                                                   ELSE {run.allAnomalies}) :
         /\ now >= clock
         /\ clock' = now
         /\ run' = [run EXCEPT
                       !.allAnomalies = allAnomalies,
                       !.scorings =
                           Append(@, [now |-> now,
                                      score |-> calculateImpactScore(
                                                    run.insight[1], allAnomalies, now)])]
    /\ UNCHANGED <<tables, businessInsight>>

NextOfAnomaly ==
    Tick \/ GetBusinessInsights \/ GenerateInsightForAnomaly \/ CalculateImpactScore

\* the requests over the rows of one page, and generateInsightForAnomaly and
\* calculateImpactScore on their own
SpecOfAnomaly == (InitOfPage \/ InitOfAnomaly) /\ [][NextOfAnomaly]_vars

----------------------------------------------------------------------------
(* Properties.  They are stated over `run`, the record of the last request,
   and recompute what they state from the tables in integers. *)

\* the six metrics the detectors look at
MetricFamilies ==
    {[table |-> "pageViews", field |-> "viewCount",
      metricType |-> "Traffic", metric |-> "PageViews"],
     [table |-> "userActions", field |-> "avgSessionDuration",
      metricType |-> "UserActions", metric |-> "Session Duration"],
     [table |-> "userActions", field |-> "bounceRate",
      metricType |-> "Engagement", metric |-> "Bounce Rate"],
     [table |-> "userActions", field |-> "conversionRate",
      metricType |-> "Conversion", metric |-> "Conversion Rate"],
     [table |-> "performance", field |-> "avgLoadTime",
      metricType |-> "Performance", metric |-> "Load Time"],
     [table |-> "performance", field |-> "errorRate",
      metricType |-> "Performance", metric |-> "Error Rate"]}

TrafficFamily == {m \in MetricFamilies : m.metric = "PageViews"}

TableOf(name) ==
    CASE name = "pageViews" -> pageViewsHourly
      [] name = "userActions" -> userActionsHourly
      [] name = "performance" -> performanceHourly

RECURSIVE SumOver(_, _)
SumOver(rows, field) ==
    IF rows = {} THEN 0
    ELSE LET r == CHOOSE x \in rows : TRUE
         IN  r[field] + SumOver(rows \ {r}, field)

RECURSIVE SumSquaresOver(_, _)
SumSquaresOver(rows, field) ==
    IF rows = {} THEN 0
    ELSE LET r == CHOOSE x \in rows : TRUE
         IN  r[field] * r[field] + SumSquaresOver(rows \ {r}, field)

\* the rows of a page with from <= timestamp < to
RowsBetween(table, page, from, to) ==
    {r \in table : r.page = page /\ from <= r.timestamp /\ r.timestamp < to}

\* |V - M| > 2.5 * S and M > 0 for a baseline of n > 0 values with sum s and
\* sum of squares q: M = s / n and S^2 = (n * q - s * s) / n^2
Deviates(V, n, s, q) ==
    /\ n > 0
    /\ s > 0
    /\ 4 * (n * V - s) * (n * V - s) > 25 * (n * q - s * s)

\* the observations a pass over the families must flag at `now`: the rows from
\* now - 6 h on of the pages with page views that deviate from the mean of the
\* page's rows of the 24 hours before
MustFlag(families, now) ==
    {<<r.page, m.metricType, m.metric, r.timestamp, r[m.field]>> :
        <<m, r>> \in
          {x \in families \X (pageViewsHourly \cup userActionsHourly
                                \cup performanceHourly) :
             /\ x[2] \in TableOf(x[1].table)
             /\ \E v \in pageViewsHourly : v.page = x[2].page
             /\ x[2].timestamp >= now - RecentHours * Hour
             /\ Deviates(x[2][x[1].field],
                    Cardinality(RowsBetween(TableOf(x[1].table), x[2].page,
                        now - BaselineHours * Hour, now - RecentHours * Hour)),
                    SumOver(RowsBetween(TableOf(x[1].table), x[2].page,
                        now - BaselineHours * Hour, now - RecentHours * Hour),
                        x[1].field),
                    SumSquaresOver(RowsBetween(TableOf(x[1].table), x[2].page,
                        now - BaselineHours * Hour, now - RecentHours * Hour),
                        x[1].field))}}

Flagged(anomalies) ==
    {<<anomalies[i].page, anomalies[i].metricType, anomalies[i].metric,
       anomalies[i].timestamp, anomalies[i].currentValue.n>> :
        i \in 1..Len(anomalies)}

\* C1: in the page-level pass and in the granular pass (which tests page views
\* only), a recent observation V is emitted as an anomaly if and only if its
\* baseline is not empty, |V - M| > 2.5 * S and M > 0, each observation once;
\* no emitted anomaly has a baseline mean M <= 0.
C1_FlaggedIffDeviates ==
    run.done =>
      /\ Flagged(run.aggregatedAnomalies) = MustFlag(MetricFamilies, run.now)
      /\ Len(run.aggregatedAnomalies) = Cardinality(MustFlag(MetricFamilies, run.now))
      /\ Flagged(run.granularAnomalies) = MustFlag(TrafficFamily, run.now)
      /\ Len(run.granularAnomalies) = Cardinality(MustFlag(TrafficFamily, run.now))
      /\ \A i \in 1..Len(run.aggregatedAnomalies) :
           run.aggregatedAnomalies[i].baselineMean.n > 0
      /\ \A i \in 1..Len(run.granularAnomalies) :
           run.granularAnomalies[i].baselineMean.n > 0

\* a run that flagged an observation against a baseline with S > 0, left an
\* observation with M > 0 unflagged, and flagged in the granular pass too
C1_Witness ==
    /\ run.done
    /\ \E i \in 1..Len(run.aggregatedAnomalies) :
         run.aggregatedAnomalies[i].baselineStdDev.sq.n > 0
    /\ \E r \in pageViewsHourly :
         /\ r.timestamp >= run.now - RecentHours * Hour
         /\ <<r.page, "Traffic", "PageViews", r.timestamp, r.viewCount>>
              \notin Flagged(run.aggregatedAnomalies)
         /\ SumOver(RowsBetween(pageViewsHourly, r.page,
                                run.now - BaselineHours * Hour,
                                run.now - RecentHours * Hour), "viewCount") > 0
    /\ Len(run.granularAnomalies) > 0

\* how often x occurs in the list s
Count(x, s) == Cardinality({i \in 1..Len(s) : s[i] = x})

\* C2: of n scored insights the request returns exactly min(5, n), ordered by
\* impactScore descending, each of them one of the scored insights, and every
\* scored insight left out has a score less than or equal to that of every
\* insight returned.
C2_TopFiveDescending ==
    run.done =>
      /\ Len(run.result) =
           (IF Len(run.scoredInsights) < 5 THEN Len(run.scoredInsights) ELSE 5)
      /\ \A i \in 1..Len(run.result), j \in 1..Len(run.result) :
           i < j => run.result[i].impactScore >= run.result[j].impactScore
      /\ \A i \in 1..Len(run.result) :
           Count(run.result[i], run.result) <= Count(run.result[i], run.scoredInsights)
      /\ \A k \in 1..Len(run.scoredInsights) :
           Count(run.scoredInsights[k], run.result)
               < Count(run.scoredInsights[k], run.scoredInsights)
             => \A i \in 1..Len(run.result) :
                  run.scoredInsights[k].impactScore <= run.result[i].impactScore

\* a run with more than five scored insights, of different scores
C2_Witness ==
    /\ run.done
    /\ Len(run.scoredInsights) > 5
    /\ Len(run.result) = 5
    /\ run.result[1].impactScore > run.result[5].impactScore

\* C3: every insight a request returns carries an impactScore that is an
\* integer from 0 to 100.
C3_ScoreWithinRange ==
    run.done =>
      \A i \in 1..Len(run.result) : run.result[i].impactScore \in 0..100

\* the criticality of the types the insights have
CriticalityByType(type) ==
    CASE type = "Conversion Drop" -> 90
      [] type \in {"Performance Issue", "Engagement Drop"} -> 70
      [] type \in {"Traffic Surge", "Traffic Drop"} -> 60
      [] OTHER -> 50

\* the anomaly calculateImpactScore finds for an insight: the first one of the
\* list of that page and instant
MatchOf(insight, anomalies) ==
    CHOOSE i \in 1..Len(anomalies) :
        /\ anomalies[i].page = insight.page
        /\ toISOString(anomalies[i].timestamp) = insight.detectedAt
        /\ \A j \in 1..(i - 1) :
             ~(/\ anomalies[j].page = insight.page
               /\ toISOString(anomalies[j].timestamp) = insight.detectedAt)

\* score = round(x), a half rounding up, for
\*   x = 0.3 * min(P / (5 * Q), 100) + 0.4 * criticality
\*         + 0.3 * max(0, 100 - 10 * elapsed / Hour)
\* where |percentageChange| = P / Q and elapsed is in units of the clock;
\* stated as 2 * score - 1 <= 2 * x < 2 * score + 1 over the common
\* denominator 50 * Q * Hour
IsWeightedScore(score, P, Q, criticality, elapsed) ==
    LET magnitude5Q == IF P >= 500 * Q THEN 500 * Q ELSE P
        recencyHour == IF 100 * Hour - 10 * elapsed < 0 THEN 0
                       ELSE 100 * Hour - 10 * elapsed
        x50QHour == 3 * magnitude5Q * Hour + 4 * criticality * 5 * Q * Hour
                      + 3 * recencyHour * 5 * Q
    IN  /\ (2 * score - 1) * 50 * Q * Hour <= 2 * x50QHour
        /\ 2 * x50QHour < (2 * score + 1) * 50 * Q * Hour

\* C4: when a matching anomaly exists, the impact score of an insight is
\* round(0.3 * magnitude + 0.4 * criticality + 0.3 * recency) with
\* magnitude = min(|percentageChange| / 5, 100), criticality by the type
\* (90, 70, 60, 50) and recency = max(0, 100 - 10 * hours since detectedAt at
\* scoring time); a Traffic Surge of +340 % detected 3 hours before scoring
\* gets 65.
C4_ScoreFormula ==
    run.done =>
      \A i \in 1..Len(run.scoredInsights) :
        /\ \E k \in 1..Len(run.uniqueAnomalies) :
             /\ run.uniqueAnomalies[k].page = run.scoredInsights[i].page
             /\ toISOString(run.uniqueAnomalies[k].timestamp)
                  = run.scoredInsights[i].detectedAt
        /\ IsWeightedScore(
               run.scoredInsights[i].impactScore,
               AbsInt(run.uniqueAnomalies[
                   MatchOf(run.scoredInsights[i], run.uniqueAnomalies)
                 ].percentageChange.n),
               run.uniqueAnomalies[
                   MatchOf(run.scoredInsights[i], run.uniqueAnomalies)
                 ].percentageChange.d,
               CriticalityByType(run.scoredInsights[i].type),
               run.scoreNow - run.uniqueAnomalies[
                   MatchOf(run.scoredInsights[i], run.uniqueAnomalies)
                 ].timestamp)
        /\ (/\ run.scoredInsights[i].type = "Traffic Surge"
            /\ run.uniqueAnomalies[
                   MatchOf(run.scoredInsights[i], run.uniqueAnomalies)
                 ].percentageChange = FromInt(340)
            /\ run.scoreNow - run.uniqueAnomalies[
                   MatchOf(run.scoredInsights[i], run.uniqueAnomalies)
                 ].timestamp = 3 * Hour)
             => run.scoredInsights[i].impactScore = 65

\* a Traffic Surge of +340 %, detected 3 hours before it is scored, with 65
C4_Witness ==
    /\ run.done
    /\ \E i \in 1..Len(run.result) :
         /\ run.result[i].type = "Traffic Surge"
         /\ run.result[i].change = "+340%"
         /\ run.scoreNow - dateParse(run.result[i].detectedAt) = 3 * Hour
         /\ run.result[i].impactScore = 65

\* the key of the deduplication: page, metric and instant
KeyOf(anomaly) == <<anomaly.page, anomaly.metric, anomaly.timestamp>>

\* the places of a list that hold the first anomaly of their key
FirstsOf(anomalies) ==
    {i \in 1..Len(anomalies) :
        \A j \in 1..(i - 1) : KeyOf(anomalies[j]) # KeyOf(anomalies[i])}

\* the k-th of a set of places
NthOf(places, k) ==
    CHOOSE i \in places : Cardinality({j \in places : j <= i}) = k

\* C5: the deduplicated list is the subsequence of the detected list (the
\* page-level anomalies followed by the granular ones) that holds, in the
\* order of the input, exactly the first anomaly of every key (page, metric,
\* timestamp); no two of its anomalies share a key.
C5_DedupKeepsFirsts ==
    run.done =>
      /\ Len(run.uniqueAnomalies)
           = Cardinality(FirstsOf(run.aggregatedAnomalies \o run.granularAnomalies))
      /\ \A k \in 1..Len(run.uniqueAnomalies) :
           run.uniqueAnomalies[k] =
             (run.aggregatedAnomalies \o run.granularAnomalies)[
                 NthOf(FirstsOf(run.aggregatedAnomalies \o run.granularAnomalies), k)]
      /\ \A k \in 1..Len(run.uniqueAnomalies), l \in 1..Len(run.uniqueAnomalies) :
           KeyOf(run.uniqueAnomalies[k]) = KeyOf(run.uniqueAnomalies[l]) => k = l

\* a run whose detected list repeats a key after an anomaly of another key,
\* two of whose anomalies share page and instant
C5_Witness ==
    /\ run.done
    /\ Len(run.uniqueAnomalies) >= 2
    /\ Len(run.aggregatedAnomalies) + Len(run.granularAnomalies)
         > Len(run.uniqueAnomalies)
    /\ \E k \in 1..Len(run.uniqueAnomalies), l \in 1..Len(run.uniqueAnomalies) :
         /\ k # l
         /\ run.uniqueAnomalies[k].timestamp = run.uniqueAnomalies[l].timestamp

\* C6: deduplication is idempotent on what detection produces: the list A
\* merged with itself deduplicates to what A deduplicates to, and
\* deduplicating a deduplicated list changes nothing.
C6_DedupIdempotent ==
    run.done =>
      \A A \in {run.aggregatedAnomalies, run.granularAnomalies,
                run.aggregatedAnomalies \o run.granularAnomalies} :
        /\ deduplicateAnomalies(A \o A) = deduplicateAnomalies(A)
        /\ deduplicateAnomalies(deduplicateAnomalies(A)) = deduplicateAnomalies(A)
        /\ deduplicateAnomalies(run.uniqueAnomalies) = run.uniqueAnomalies

\* a run that detected anomalies of three keys or more, one of them twice
C6_Witness ==
    /\ run.done
    /\ Len(run.uniqueAnomalies) >= 3
    /\ Len(run.granularAnomalies) >= 1
    /\ Len(deduplicateAnomalies(run.aggregatedAnomalies \o run.aggregatedAnomalies))
         < 2 * Len(run.aggregatedAnomalies)

\* C7: when detection finds no anomaly, the request returns an empty list and
\* answers with success = true and no insight, without calling storeInsights.
C7_NoAnomalyEmptySuccess ==
    (/\ run.done
     /\ Len(run.aggregatedAnomalies) = 0
     /\ Len(run.granularAnomalies) = 0)
      => /\ Len(run.result) = 0
         /\ run.response.success = TRUE
         /\ Len(run.response.insights) = 0
         /\ run.storeCalled = FALSE
         /\ run.storeThrew = FALSE

\* a run over recent page views with a baseline that found no anomaly
C7_Witness ==
    /\ run.done
    /\ Len(run.aggregatedAnomalies) = 0
    /\ Len(run.granularAnomalies) = 0
    /\ \E r \in pageViewsHourly : r.timestamp >= run.now - RecentHours * Hour
    /\ \E r \in pageViewsHourly : r.timestamp < run.now - RecentHours * Hour
    /\ run.response.success = TRUE

\* the fields of the insight at one place of a response
SameInsight(dto, insight) ==
    /\ dto.type = insight.type
    /\ dto.metric = insight.metric
    /\ dto.page = insight.page
    /\ dto.change = insight.change
    /\ dto.businessInsight = insight.businessInsight
    /\ dto.suggestedAction = insight.suggestedAction
    /\ dto.impactScore = insight.impactScore
    /\ dto.detectedAt = insight.detectedAt
    /\ dto.context = insight.context

\* C8: when storeInsights fails at an insight, the request still answers
\* with success = true and with all the insights it generated, unchanged and
\* in the same order.
C8_StoreFailureStillAnswers ==
    (run.done /\ run.storeThrew) =>
      /\ run.response.success = TRUE
      /\ Len(run.response.insights) = Len(run.result)
      /\ Len(run.result) > 0
      /\ \A i \in 1..Len(run.result) :
           SameInsight(run.response.insights[i], run.result[i])

\* a run whose store failed after it had written a row, with two insights or
\* more to answer
C8_Witness ==
    /\ run.done
    /\ run.storeThrew
    /\ Len(run.result) >= 2
    /\ Len(businessInsight) >= 1
    /\ Len(businessInsight) < Len(run.result)

\* C9: only observations with now - 6 h <= t < now are tested: every anomaly
\* of a run has its timestamp in that window.
C9_RecentWindowEndsAtNow ==
    run.done =>
      \A i \in 1..Len(run.aggregatedAnomalies \o run.granularAnomalies) :
        /\ run.now - RecentHours * Hour
             <= (run.aggregatedAnomalies \o run.granularAnomalies)[i].timestamp
        /\ (run.aggregatedAnomalies \o run.granularAnomalies)[i].timestamp < run.now

\* the family of an anomaly
FamilyOf(anomaly) ==
    CHOOSE m \in MetricFamilies :
        m.metricType = anomaly.metricType /\ m.metric = anomaly.metric

\* the mean and the standard deviation an anomaly carries are those of the
\* rows B: with n = |B|, s the sum and q the sum of squares of their values,
\* mean = s / n and stdDev^2 = (n * q - s * s) / n^2
IsBaselineOf(anomaly, B) ==
    /\ Cardinality(B) > 0
    /\ anomaly.baselineMean.n * Cardinality(B)
         = SumOver(B, FamilyOf(anomaly).field) * anomaly.baselineMean.d
    /\ anomaly.baselineStdDev.sq.n * Cardinality(B) * Cardinality(B)
         = (Cardinality(B) * SumSquaresOver(B, FamilyOf(anomaly).field)
              - SumOver(B, FamilyOf(anomaly).field)
                  * SumOver(B, FamilyOf(anomaly).field))
             * anomaly.baselineStdDev.sq.d

\* the rows the detector's two queries of a family and page return at `now`
QueriedBaseline(table, page, now) ==
    {r \in table :
        Matches(r, baselineWhere(page, baselineStartOf(now), baselineEndOf(now)))}
QueriedRecent(table, page, now) ==
    {r \in table : Matches(r, recentWhere(page, recentStartOf(now)))}

\* C10 as the specification has it: the baseline of an anomaly is computed
\* over exactly the rows of the page with now - 30 h < t < now - 6 h.
C10_BaselineOpenWindow ==
    run.done =>
      \A i \in 1..Len(run.aggregatedAnomalies) :
        IsBaselineOf(run.aggregatedAnomalies[i],
            RowsBetween(TableOf(FamilyOf(run.aggregatedAnomalies[i]).table),
                        run.aggregatedAnomalies[i].page,
                        run.now - BaselineHours * Hour + 1,
                        run.now - RecentHours * Hour))

\* C10: the baseline mean and standard deviation of a (page, metric) are
\* computed over exactly the rows of the page with now - 30 h <= t < now - 6 h:
\* a row at exactly now - 30 h contributes, a row at or after now - 6 h does
\* not (every observation that deviates from that baseline is flagged, with
\* the mean and the standard deviation of those rows), and no row is both in
\* the baseline and tested as recent.
C10_BaselineHalfOpenWindow ==
    run.done =>
      /\ \A i \in 1..Len(run.aggregatedAnomalies) :
           IsBaselineOf(run.aggregatedAnomalies[i],
               RowsBetween(TableOf(FamilyOf(run.aggregatedAnomalies[i]).table),
                           run.aggregatedAnomalies[i].page,
                           run.now - BaselineHours * Hour,
                           run.now - RecentHours * Hour))
      /\ MustFlag(MetricFamilies, run.now) \subseteq Flagged(run.aggregatedAnomalies)
      /\ \A m \in MetricFamilies, v \in pageViewsHourly :
           QueriedBaseline(TableOf(m.table), v.page, run.now)
             \cap QueriedRecent(TableOf(m.table), v.page, run.now) = {}

\* a run with an anomaly whose baseline holds a row at exactly now - 30 h
C10_Witness ==
    /\ run.done
    /\ \E i \in 1..Len(run.aggregatedAnomalies) :
         /\ run.aggregatedAnomalies[i].metric = "PageViews"
         /\ \E r \in pageViewsHourly :
              /\ r.page = run.aggregatedAnomalies[i].page
              /\ r.timestamp = run.now - BaselineHours * Hour

\* the anomalies of a list that belong to a page and a family
OfFamily(anomalies, page, m) ==
    {i \in 1..Len(anomalies) :
        /\ anomalies[i].page = page
        /\ anomalies[i].metricType = m.metricType
        /\ anomalies[i].metric = m.metric}

\* C11: when a page has no row of a metric family in the baseline window, the
\* run emits no anomaly for that page and family, whatever the recent values
\* are, and the request is answered; the families and pages that have a
\* baseline are still processed: their deviating observations are flagged.
C11_EmptyBaselineSkipped ==
    run.done =>
      /\ \A m \in MetricFamilies, v \in pageViewsHourly :
           RowsBetween(TableOf(m.table), v.page, run.now - BaselineHours * Hour,
                       run.now - RecentHours * Hour) = {}
             => /\ OfFamily(run.aggregatedAnomalies, v.page, m) = {}
                /\ OfFamily(run.granularAnomalies, v.page, m) = {}
      /\ run.response.success
      /\ MustFlag(MetricFamilies, run.now) \subseteq Flagged(run.aggregatedAnomalies)

\* a run over a page with recent page views and no page views in the baseline
\* window, which flagged an observation of another family
C11_Witness ==
    /\ run.done
    /\ \E v \in pageViewsHourly :
         /\ v.timestamp >= run.now - RecentHours * Hour
         /\ RowsBetween(pageViewsHourly, v.page, run.now - BaselineHours * Hour,
                        run.now - RecentHours * Hour) = {}
         /\ \E i \in 1..Len(run.aggregatedAnomalies) :
              /\ run.aggregatedAnomalies[i].page = v.page
              /\ run.aggregatedAnomalies[i].metric # "PageViews"

\* the dimensions of a row, undefined where the row has none
ContextOf(r) ==
    [deviceType |-> r.deviceType, region |-> r.region,
     referrer |-> IF "referrer" \in DOMAIN r THEN r.referrer ELSE Undefined,
     pageCategory |-> r.pageCategory]

\* the anomaly a is the one of the recent row r of its family: r's page,
\* timestamp, value and dimensions, and the change of the value against the
\* anomaly's baseline mean M: change * M = (V - M) * 100
IsAnomalyOf(a, r, now) ==
    /\ r \in TableOf(FamilyOf(a).table)
    /\ r.timestamp >= now - RecentHours * Hour
    /\ a.page = r.page
    /\ a.timestamp = r.timestamp
    /\ a.currentValue = [n |-> r[FamilyOf(a).field], d |-> 1]
    /\ a.context = ContextOf(r)
    /\ a.percentageChange.d > 0
    /\ a.percentageChange.n * a.baselineMean.n
         = (r[FamilyOf(a).field] * a.baselineMean.d - a.baselineMean.n)
             * 100 * a.percentageChange.d

\* C12: every emitted anomaly carries the change (V - M) / M * 100, the
\* timestamp and the deviceType, region, referrer and pageCategory of the
\* recent row that was flagged, and every flagged recent row has its anomaly.
C12_AnomalyOfRecentRow ==
    run.done =>
      /\ \A i \in 1..Len(run.aggregatedAnomalies \o run.granularAnomalies) :
           \E r \in pageViewsHourly \cup userActionsHourly \cup performanceHourly :
             IsAnomalyOf((run.aggregatedAnomalies \o run.granularAnomalies)[i],
                         r, run.now)
      /\ \A m \in MetricFamilies : \A r \in TableOf(m.table) :
           <<r.page, m.metricType, m.metric, r.timestamp, r[m.field]>>
               \in MustFlag(MetricFamilies, run.now)
             => \E i \in 1..Len(run.aggregatedAnomalies) :
                  /\ run.aggregatedAnomalies[i].metric = m.metric
                  /\ IsAnomalyOf(run.aggregatedAnomalies[i], r, run.now)

\* a run with an anomaly of a row whose device is not the device of a row of
\* its baseline
C12_Witness ==
    /\ run.done
    /\ \E i \in 1..Len(run.aggregatedAnomalies) : \E b \in pageViewsHourly :
         /\ run.aggregatedAnomalies[i].metric = "PageViews"
         /\ b.page = run.aggregatedAnomalies[i].page
         /\ b.timestamp < run.now - RecentHours * Hour
         /\ b.timestamp >= run.now - BaselineHours * Hour
         /\ b.deviceType # run.aggregatedAnomalies[i].context.deviceType

\* the page-view rows of the combination of r with from <= timestamp < to
RowsOfCombination(r, from, to) ==
    {b \in pageViewsHourly :
        /\ b.page = r.page
        /\ b.deviceType = r.deviceType
        /\ b.referrer = r.referrer
        /\ b.region = r.region
        /\ from <= b.timestamp
        /\ b.timestamp < to}

\* C13: the granular pass tests each recent page-view row against the
\* baseline of its own combination (page, deviceType, referrer, region): a
\* row that deviates from that baseline by more than 2.5 standard deviations
\* is flagged in the granular pass, with the mean and the standard deviation
\* of its combination.
C13_GranularPerCombination ==
    run.done =>
      \A r \in pageViewsHourly :
        /\ r.timestamp >= run.now - RecentHours * Hour
        /\ Deviates(r.viewCount,
               Cardinality(RowsOfCombination(r, run.now - BaselineHours * Hour,
                                             run.now - RecentHours * Hour)),
               SumOver(RowsOfCombination(r, run.now - BaselineHours * Hour,
                                         run.now - RecentHours * Hour), "viewCount"),
               SumSquaresOver(RowsOfCombination(r, run.now - BaselineHours * Hour,
                                                run.now - RecentHours * Hour),
                              "viewCount"))
        => \E i \in 1..Len(run.granularAnomalies) :
             /\ IsAnomalyOf(run.granularAnomalies[i], r, run.now)
             /\ IsBaselineOf(run.granularAnomalies[i],
                    RowsOfCombination(r, run.now - BaselineHours * Hour,
                                      run.now - RecentHours * Hour))

\* the user-action rows of the page of an anomaly in the hour of the anomaly
HourBucket(a) ==
    {r \in userActionsHourly :
        /\ r.page = a.page
        /\ (a.timestamp \div Hour) * Hour <= r.timestamp
        /\ r.timestamp < (a.timestamp \div Hour) * Hour + Hour}

\* the rows a lookup for an anomaly takes its baseline from
LookupBaseline(a) ==
    RowsBetween(userActionsHourly, a.page, a.timestamp - BaselineHours * Hour,
                a.timestamp - RecentHours * Hour)

\* the baseline rate of a lookup as a fraction s / n: the mean of the baseline
\* rows, the value of the recent row r when there is none
BaseSum(a, r, field) ==
    IF LookupBaseline(a) = {} THEN r[field] ELSE SumOver(LookupBaseline(a), field)
BaseCount(a) ==
    IF LookupBaseline(a) = {} THEN 1 ELSE Cardinality(LookupBaseline(a))

\* the correlated metrics recorded for an anomaly
CorrelatedOf(a) ==
    {run.correlations[j].correlatedMetrics[k] :
        <<j, k>> \in {x \in (1..Len(run.correlations)) \X (1..2) :
                        /\ run.correlations[x[1]].primaryAnomaly = a
                        /\ x[2] <= Len(run.correlations[x[1]].correlatedMetrics)}}

Tagged(a, tag) == {m \in CorrelatedOf(a) : m.correlation = tag}

\* the correlated metric m tells the value of field of the row r and its
\* change against the baseline: change * base = (value - base) * 100
TellsOf(m, a, r, field) ==
    /\ m.value = [n |-> r[field], d |-> 1]
    /\ BaseSum(a, r, field) # 0
    /\ m.change.d > 0
    /\ m.change.n * BaseSum(a, r, field)
         = (r[field] * BaseCount(a) - BaseSum(a, r, field)) * 100 * m.change.d

\* conversionRate < 0.9 * baseline
ConversionDown(a, r) ==
    10 * r.conversionRate * BaseCount(a) < 9 * BaseSum(a, r, "conversionRate")

BounceUp(a, r) ==
    10 * r.bounceRate * BaseCount(a) > 11 * BaseSum(a, r, "bounceRate")

DetectionBaseline(a, now) ==
    RowsBetween(userActionsHourly, a.page, now - BaselineHours * Hour,
                now - RecentHours * Hour)

\* the row field a correlated metric tells of
FieldOfCorrelated(m) ==
    IF m.metric = "Conversion Rate" THEN "conversionRate" ELSE "bounceRate"

\* the change of the correlated metric m is the change of the row r against
\* the mean of the rows B, against the value of r itself when B is empty
ChangeAgainst(m, r, B) ==
    /\ m.value = [n |-> r[FieldOfCorrelated(m)], d |-> 1]
    /\ m.change.d > 0
    /\ IF B = {} THEN m.change.n = 0
       ELSE m.change.n * SumOver(B, FieldOfCorrelated(m))
              = (r[FieldOfCorrelated(m)] * Cardinality(B)
                   - SumOver(B, FieldOfCorrelated(m))) * 100 * m.change.d

\* C16: the baseline of a correlation lookup is the mean over the page's
\* user-action rows of the detector's baseline window of the run, from
\* now - 30 h to now - 6 h, and the recent value itself when there is none:
\* every recorded correlated metric tells the change against that baseline.
C16_LookupUsesDetectionBaseline ==
    run.done =>
      \A i \in 1..Len(run.uniqueAnomalies) :
        \A m \in CorrelatedOf(run.uniqueAnomalies[i]) :
          \E r \in HourBucket(run.uniqueAnomalies[i]) :
            ChangeAgainst(m, r, DetectionBaseline(run.uniqueAnomalies[i], run.now))

\* the sentences an insight has only with a correlation
CorrelationClauses ==
    {" However, conversion rate has dropped, indicating potential UX or pricing issues.",
     " Review pricing competitiveness and checkout flow.",
     " Bounce rate increased by ",
     "% in correlation, confirming performance impact.",
     " Priority: Fix performance issues immediately to prevent further engagement loss.",
     "High traffic but low conversions. Possible pricing, availability, or trust issues.",
     "Review package pricing competitiveness, ensure availability is shown correctly, and add more customer reviews/testimonials."}

HasClause(insight) ==
    \/ \E k \in 1..Len(insight.businessInsight) :
          insight.businessInsight[k] \in CorrelationClauses
    \/ \E k \in 1..Len(insight.suggestedAction) :
          insight.suggestedAction[k] \in CorrelationClauses

\* the insights of a run generated for the anomaly a
InsightsOfAnomaly(a) ==
    {k \in 1..Len(run.scoredInsights) :
        /\ run.scoredInsights[k].page = a.page
        /\ run.scoredInsights[k].metric = a.metric
        /\ run.scoredInsights[k].detectedAt = toISOString(a.timestamp)}

\* a correlated metric is found for a: one of the two rules applies to it and
\* a row of its hour satisfies the rule's predicate
FindsCorrelated(a) ==
    \/ /\ a.metricType = "Traffic"
       /\ a.percentageChange.n > 0
       /\ \E r \in HourBucket(a) : ConversionDown(a, r)
    \/ /\ a.metricType = "Performance"
       /\ a.metric = "Load Time"
       /\ a.percentageChange.n > 0
       /\ \E r \in HourBucket(a) : BounceUp(a, r)

\* the entries of the result for the anomalies of the page and timestamp of a
EntriesAt(a) ==
    {j \in 1..Len(run.correlations) :
        /\ run.correlations[j].primaryAnomaly.page = a.page
        /\ run.correlations[j].primaryAnomaly.timestamp = a.timestamp}

\* C17 as the specification has it: an anomaly for which no correlated metric
\* is found has no entry in the result of analyzeCorrelations, every entry has
\* correlated metrics, and the insight of that anomaly is generated without
\* correlation clauses.
C17_UncorrelatedInsightIsPlain ==
    run.done =>
      /\ \A j \in 1..Len(run.correlations) :
           Len(run.correlations[j].correlatedMetrics) > 0
      /\ \A i \in 1..Len(run.uniqueAnomalies) :
           ~FindsCorrelated(run.uniqueAnomalies[i])
             => /\ CorrelatedOf(run.uniqueAnomalies[i]) = {}
                /\ \A j \in 1..Len(run.correlations) :
                     run.correlations[j].primaryAnomaly # run.uniqueAnomalies[i]
                /\ InsightsOfAnomaly(run.uniqueAnomalies[i]) # {}
                /\ \A k \in InsightsOfAnomaly(run.uniqueAnomalies[i]) :
                     ~HasClause(run.scoredInsights[k])

\* C17: an anomaly for which no correlated metric is found has no entry in the
\* result of analyzeCorrelations, every entry has correlated metrics, and the
\* insight of that anomaly is generated; it is without correlation clauses
\* unless the result holds an entry for an anomaly of the same page and
\* timestamp.
C17_UncorrelatedInsightGenerated ==
    run.done =>
      /\ \A j \in 1..Len(run.correlations) :
           Len(run.correlations[j].correlatedMetrics) > 0
      /\ \A i \in 1..Len(run.uniqueAnomalies) :
           ~FindsCorrelated(run.uniqueAnomalies[i])
             => /\ CorrelatedOf(run.uniqueAnomalies[i]) = {}
                /\ \A j \in 1..Len(run.correlations) :
                     run.correlations[j].primaryAnomaly # run.uniqueAnomalies[i]
                /\ InsightsOfAnomaly(run.uniqueAnomalies[i]) # {}
                /\ \A k \in InsightsOfAnomaly(run.uniqueAnomalies[i]) :
                     HasClause(run.scoredInsights[k])
                       => EntriesAt(run.uniqueAnomalies[i]) # {}

\* a run with two anomalies without correlated metric: the insight of one is
\* plain, the insight of the other has the clause of an entry of its page and
\* timestamp
C17_Witness ==
    /\ run.done
    /\ \E i, j \in 1..Len(run.uniqueAnomalies) :
         /\ ~FindsCorrelated(run.uniqueAnomalies[i])
         /\ ~FindsCorrelated(run.uniqueAnomalies[j])
         /\ \E k \in InsightsOfAnomaly(run.uniqueAnomalies[i]) :
              ~HasClause(run.scoredInsights[k])
         /\ \E k \in InsightsOfAnomaly(run.uniqueAnomalies[j]) :
              HasClause(run.scoredInsights[k])

\* the pairs generateInsightForAnomaly has an insight for
InsightPairs ==
    {<<"Traffic", "PageViews">>, <<"Performance", "Load Time">>,
     <<"UserActions", "Session Duration">>, <<"Conversion", "Conversion Rate">>,
     <<"Engagement", "Bounce Rate">>, <<"Performance", "Error Rate">>}

\* C18: generateInsightForAnomaly yields an insight exactly for the six pairs
\* (metricType, metric) and none for any other pair; the detectors emit these
\* six pairs only, so a request has one insight per deduplicated anomaly
\* before ranking.
C18_InsightForSixPairs ==
    /\ ("anomaly" \in DOMAIN run /\ run.done)
         => /\ Len(run.insight) <= 1
            /\ Len(run.insight) = 1
                 <=> <<run.anomaly.metricType, run.anomaly.metric>> \in InsightPairs
            /\ Len(run.insight) = 1
                 => /\ run.insight[1].metric = run.anomaly.metric
                    /\ run.insight[1].page = run.anomaly.page
    /\ ("uniqueAnomalies" \in DOMAIN run /\ run.done)
         => /\ Len(run.scoredInsights) = Len(run.uniqueAnomalies)
            /\ \A i \in 1..Len(run.uniqueAnomalies) :
                 /\ <<run.uniqueAnomalies[i].metricType,
                      run.uniqueAnomalies[i].metric>> \in InsightPairs
                 /\ Cardinality(InsightsOfAnomaly(run.uniqueAnomalies[i])) = 1

\* generateInsightForAnomaly returned no insight for a pair it does not know,
\* of a metric type and a metric it knows
C18_Witness ==
    /\ "anomaly" \in DOMAIN run
    /\ run.done
    /\ run.insight = <<>>
    /\ run.anomaly.metricType = "Traffic"
    /\ run.anomaly.metric = "Load Time"

\* the strings of a whole percentage with its sign
SignedPercents(sign) == {sign \o ToString(k) \o "%" : k \in 0..1000}

\* C19: a Traffic/PageViews anomaly has a change that is not 0; its insight
\* is a 'Traffic Surge' with a change string that starts with + when the
\* change is positive and a 'Traffic Drop' with a change string that starts
\* with - when it is negative.
C19_TrafficSurgeOrDrop ==
    run.done =>
      \A i \in 1..Len(run.uniqueAnomalies) :
        LET a == run.uniqueAnomalies[i]
        IN  (a.metricType = "Traffic" /\ a.metric = "PageViews")
              => /\ a.percentageChange.d > 0
                 /\ a.percentageChange.n # 0
                 /\ InsightsOfAnomaly(a) # {}
                 /\ \A k \in InsightsOfAnomaly(a) :
                      IF a.percentageChange.n > 0
                      THEN /\ run.scoredInsights[k].type = "Traffic Surge"
                           /\ run.scoredInsights[k].change \in SignedPercents("+")
                      ELSE /\ run.scoredInsights[k].type = "Traffic Drop"
                           /\ run.scoredInsights[k].change \in SignedPercents("-")

\* a run with a traffic anomaly below its baseline and its 'Traffic Drop'
C19_Witness ==
    /\ run.done
    /\ \E i \in 1..Len(run.uniqueAnomalies) :
         /\ run.uniqueAnomalies[i].metric = "PageViews"
         /\ run.uniqueAnomalies[i].percentageChange.n < 0
         /\ \E k \in InsightsOfAnomaly(run.uniqueAnomalies[i]) :
              run.scoredInsights[k].type = "Traffic Drop"

\* C20: every insight of type 'Conversion Drop' has a negative change: it is
\* the insight of a Conversion Rate anomaly whose percentageChange is below 0.
C20_ConversionDropIsNegative ==
    run.done =>
      \A k \in 1..Len(run.scoredInsights) :
        run.scoredInsights[k].type = "Conversion Drop"
          => /\ run.scoredInsights[k].change \in SignedPercents("-")
             /\ \A i \in 1..Len(run.uniqueAnomalies) :
                  (/\ run.uniqueAnomalies[i].metric = "Conversion Rate"
                   /\ k \in InsightsOfAnomaly(run.uniqueAnomalies[i]))
                    => run.uniqueAnomalies[i].percentageChange.n < 0

\* the result of analyzeCorrelations holds the entry of a with a correlated
\* metric of that tag
Recorded(a, tag) ==
    \E j \in 1..Len(run.correlations) :
      /\ run.correlations[j].primaryAnomaly = a
      /\ \E m \in 1..Len(run.correlations[j].correlatedMetrics) :
           run.correlations[j].correlatedMetrics[m].correlation = tag

\* C21: a Load Time anomaly with a recorded 'load_time_up_bounce_rate_up'
\* correlation has an insight with the clause that confirms it by the bounce
\* rate and with the escalated action, whatever else is recorded for its page
\* and hour.
C21_LoadTimeInsightHasBounceClause ==
    run.done =>
      \A i \in 1..Len(run.uniqueAnomalies) :
        (/\ run.uniqueAnomalies[i].metric = "Load Time"
         /\ Recorded(run.uniqueAnomalies[i], "load_time_up_bounce_rate_up"))
          => \A k \in InsightsOfAnomaly(run.uniqueAnomalies[i]) :
               /\ \E n \in 1..Len(run.scoredInsights[k].businessInsight) :
                    run.scoredInsights[k].businessInsight[n]
                      = "% in correlation, confirming performance impact."
               /\ \E n \in 1..Len(run.scoredInsights[k].suggestedAction) :
                    run.scoredInsights[k].suggestedAction[n]
                      = " Priority: Fix performance issues immediately to prevent further engagement loss."

\* C22: the insight of an Error Rate anomaly is scored with the criticality
\* 90: its score is round(0.3 * magnitude + 0.4 * 90 + 0.3 * recency).
C22_ErrorRateCriticality ==
    run.done =>
      \A i \in 1..Len(run.scoredInsights) :
        run.scoredInsights[i].metric = "Error Rate"
          => IsWeightedScore(
                 run.scoredInsights[i].impactScore,
                 AbsInt(run.uniqueAnomalies[
                     MatchOf(run.scoredInsights[i], run.uniqueAnomalies)
                   ].percentageChange.n),
                 run.uniqueAnomalies[
                     MatchOf(run.scoredInsights[i], run.uniqueAnomalies)
                   ].percentageChange.d,
                 90,
                 run.scoreNow - dateParse(run.scoredInsights[i].detectedAt))

\* an anomaly of the list has the page and the instant of the insight
HasMatch(insight, anomalies) ==
    \E i \in 1..Len(anomalies) :
      /\ anomalies[i].page = insight.page
      /\ toISOString(anomalies[i].timestamp) = insight.detectedAt

\* C23: calculateImpactScore returns 50 when no anomaly of the list has the
\* page and the detectedAt of the insight; in a request that does not happen,
\* every insight has an anomaly of its page and instant in the deduplicated
\* list.
C23_DefaultScoreOnlyWithoutMatch ==
    /\ ("scorings" \in DOMAIN run /\ run.insight # <<>>
          /\ ~HasMatch(run.insight[1], run.allAnomalies))
         => \A i \in 1..Len(run.scorings) : run.scorings[i].score = 50
    /\ ("uniqueAnomalies" \in DOMAIN run /\ run.done)
         => \A i \in 1..Len(run.scoredInsights) :
              HasMatch(run.scoredInsights[i], run.uniqueAnomalies)

\* an insight scored against a list that holds its anomaly an hour earlier
C23_Witness ==
    /\ "scorings" \in DOMAIN run
    /\ run.allAnomalies = <<[run.anomaly EXCEPT !.timestamp = @ - Hour]>>
    /\ Len(run.scorings) > 0
    /\ run.scorings[1].score = 50

\* the score of scoring i is the weighted score for the given time since the
\* detection
ScoredAfter(i, elapsed) ==
    IsWeightedScore(run.scorings[i].score,
                    AbsInt(run.anomaly.percentageChange.n),
                    run.anomaly.percentageChange.d,
                    CriticalityByType(run.insight[1].type),
                    elapsed)

\* C24: the score of one insight against one list of anomalies does not rise
\* with the scoring time; its recency part is 100 less 10 for every hour
\* since detectedAt, and 0 from 10 hours after detectedAt on.
C24_ScoreDecaysWithTime ==
    ("scorings" \in DOMAIN run /\ run.insight # <<>>)
      => /\ \A i, j \in 1..Len(run.scorings) :
              (i < j /\ run.scorings[i].now <= run.scorings[j].now)
                => run.scorings[j].score <= run.scorings[i].score
         /\ HasMatch(run.insight[1], run.allAnomalies)
              => \A i \in 1..Len(run.scorings) :
                   IF run.scorings[i].now - run.anomaly.timestamp >= 10 * Hour
                   THEN ScoredAfter(i, 10 * Hour)
                   ELSE ScoredAfter(i, run.scorings[i].now - run.anomaly.timestamp)

\* an insight scored less than 10 hours after its detection and again more
\* than 10 hours after it, with a lower score
C24_Witness ==
    /\ "scorings" \in DOMAIN run
    /\ Len(run.scorings) = 2
    /\ HasMatch(run.insight[1], run.allAnomalies)
    /\ run.scorings[1].now - run.anomaly.timestamp < 10 * Hour
    /\ run.scorings[2].now - run.anomaly.timestamp > 10 * Hour
    /\ run.scorings[2].score < run.scorings[1].score

\* row is the stored row of the insight
IsRowOf(row, insight) ==
    /\ row.metricType = insight.type
    /\ row.page = insight.page
    /\ row.insightText = insight.businessInsight
    /\ row.suggestedAction = insight.suggestedAction
    /\ row.impactScore = insight.impactScore
    /\ toISOString(row.timestamp) = insight.detectedAt

\* the stored insights after a step are those before it followed by the rows
\* of the first n insights
AddsRowsOf(before, after, insights, n) ==
    /\ Len(after) = Len(before) + n
    /\ \A i \in 1..Len(before) : after[i] = before[i]
    /\ \A i \in 1..n : IsRowOf(after[Len(before) + i], insights[i])

\* C25 as the specification has it: a request leaves the three metric tables
\* as they are and adds to the stored insights exactly one row per insight it
\* returns.
C25_OneRowPerReturnedInsight ==
    [][/\ tables' = tables
       /\ (run' # run \/ businessInsight' # businessInsight)
            => AddsRowsOf(businessInsight, businessInsight', run'.result,
                          Len(run'.result))]_vars

\* C25: a request leaves the three metric tables and the stored insights it
\* found as they are; it adds the rows of the insights it returns, in their
\* order: one for each when no create fails, those before the failing one
\* when a create fails.
C25_RequestOnlyAppendsRows ==
    [][/\ tables' = tables
       /\ (run' # run \/ businessInsight' # businessInsight)
            => \E n \in 0..Len(run'.result) :
                 /\ AddsRowsOf(businessInsight, businessInsight', run'.result, n)
                 /\ run'.storeThrew <=> n < Len(run'.result)]_vars

\* a run that returned two insights or more and stored the row of each
C25_Witness ==
    /\ run.done
    /\ ~run.storeThrew
    /\ Len(run.result) >= 2
    /\ AddsRowsOf(<<>>, businessInsight, run.result, Len(run.result))

\* C26: the context of a Load Time insight holds a bounce-rate increase, a
\* whole percentage, when a 'load_time_up_bounce_rate_up' correlation was
\* recorded for its anomaly, and holds no such entry otherwise.
C26_BounceRateIncreaseOnlyWhenCorrelated ==
    run.done =>
      \A i \in 1..Len(run.uniqueAnomalies) :
        run.uniqueAnomalies[i].metric = "Load Time"
          => \A k \in InsightsOfAnomaly(run.uniqueAnomalies[i]) :
               IF Recorded(run.uniqueAnomalies[i], "load_time_up_bounce_rate_up")
               THEN run.scoredInsights[k].context.bounceRateIncrease
                      \in SignedPercents("")
               ELSE "bounceRateIncrease" \notin DOMAIN run.scoredInsights[k].context

\* C27: every anomaly has a baseline mean above 0 and a finite change, and
\* every correlated metric has a finite change: no change is a division by a
\* baseline of 0.
C27_PositiveBaselineDivides ==
    run.done =>
      /\ \A i \in 1..Len(run.aggregatedAnomalies \o run.granularAnomalies) :
           /\ (run.aggregatedAnomalies \o run.granularAnomalies)[i].baselineMean.n > 0
           /\ (run.aggregatedAnomalies \o run.granularAnomalies)[i].baselineMean.d > 0
           /\ (run.aggregatedAnomalies \o run.granularAnomalies)[i].percentageChange.d > 0
      /\ \A j \in 1..Len(run.correlations) :
           \A m \in 1..Len(run.correlations[j].correlatedMetrics) :
             /\ run.correlations[j].correlatedMetrics[m].change.d > 0
             /\ \E r \in HourBucket(run.correlations[j].primaryAnomaly) :
                  BaseSum(run.correlations[j].primaryAnomaly, r,
                          FieldOfCorrelated(run.correlations[j].correlatedMetrics[m])) > 0

\* C28: the score of every insight of a request has the magnitude
\* min(|percentageChange| / 5, 100) of the anomaly the insight was generated
\* from, whatever other anomalies of its page and timestamp the deduplicated
\* list holds.
C28_MagnitudeOfOwnAnomaly ==
    run.done =>
      \A i \in 1..Len(run.uniqueAnomalies) :
        \A k \in InsightsOfAnomaly(run.uniqueAnomalies[i]) :
          IsWeightedScore(run.scoredInsights[k].impactScore,
                          AbsInt(run.uniqueAnomalies[i].percentageChange.n),
                          run.uniqueAnomalies[i].percentageChange.d,
                          CriticalityByType(run.scoredInsights[k].type),
                          run.scoreNow - run.uniqueAnomalies[i].timestamp)

\* the baseline rows of the page of r for the family m at `now`
BaselineOf(m, r, now) ==
    RowsBetween(TableOf(m.table), r.page, now - BaselineHours * Hour,
                now - RecentHours * Hour)

\* C29: against a baseline whose values all equal one M > 0 (standard
\* deviation 0), a recent observation is flagged if and only if its value is
\* not M.
C29_ZeroDeviationFlagsAnyDifference ==
    run.done =>
      \A m \in MetricFamilies : \A r \in TableOf(m.table) :
        (/\ \E v \in pageViewsHourly : v.page = r.page
         /\ r.timestamp >= run.now - RecentHours * Hour
         /\ BaselineOf(m, r, run.now) # {}
         /\ \A b1, b2 \in BaselineOf(m, r, run.now) :
              b1[m.field] = b2[m.field] /\ b1[m.field] > 0)
          => (r[m.field] # (CHOOSE b \in BaselineOf(m, r, run.now) : TRUE)[m.field]
                <=> \E i \in 1..Len(run.aggregatedAnomalies) :
                      /\ run.aggregatedAnomalies[i].metric = m.metric
                      /\ run.aggregatedAnomalies[i].metricType = m.metricType
                      /\ run.aggregatedAnomalies[i].page = r.page
                      /\ run.aggregatedAnomalies[i].timestamp = r.timestamp
                      /\ run.aggregatedAnomalies[i].currentValue.n = r[m.field]
                      /\ run.aggregatedAnomalies[i].baselineStdDev.sq.n = 0)

\* a run that flagged a bounce rate of 32 against a baseline of one row of 30
\* and left the session duration 20 of the same row, equal to its baseline,
\* unflagged
C29_Witness ==
    /\ run.done
    /\ \E i \in 1..Len(run.aggregatedAnomalies) :
         /\ run.aggregatedAnomalies[i].metric = "Bounce Rate"
         /\ run.aggregatedAnomalies[i].currentValue.n = 32
         /\ run.aggregatedAnomalies[i].baselineMean.n = 30
         /\ run.aggregatedAnomalies[i].baselineStdDev.sq.n = 0
         /\ \A j \in 1..Len(run.aggregatedAnomalies) :
              run.aggregatedAnomalies[j].timestamp = run.aggregatedAnomalies[i].timestamp
                => run.aggregatedAnomalies[j].metric # "Session Duration"

\* the places of a list of anomalies or insights with the key of a
PlacesOf(a, anomalies) ==
    {j \in 1..Len(anomalies) : KeyOf(anomalies[j]) = KeyOf(a)}

InsightsIn(a, insights) ==
    {k \in 1..Len(insights) :
        /\ insights[k].page = a.page
        /\ insights[k].metric = a.metric
        /\ insights[k].detectedAt = toISOString(a.timestamp)}

\* the dimensions the context of an insight tells are those of the anomaly
ContextFrom(insight, a) ==
    \A f \in DOMAIN insight.context \cap {"deviceType", "referrer", "region"} :
      insight.context[f] = a.context[f]

\* C30: of the anomalies detected for one page, metric and timestamp, of rows
\* that differ in deviceType, referrer or region, the first in detection order
\* is the one of the deduplicated list; a request has one insight for them
\* before ranking, at most one in its answer, and that insight tells the
\* dimensions of the first anomaly.
C30_OneInsightPerPageMetricHour ==
    run.done =>
      \A i \in 1..Len(run.aggregatedAnomalies \o run.granularAnomalies) :
        \E a \in {(run.aggregatedAnomalies \o run.granularAnomalies)[i]} :
        \E first \in {firstIndex(PlacesOf(a, run.aggregatedAnomalies
                                                \o run.granularAnomalies))} :
          /\ Cardinality(PlacesOf(a, run.uniqueAnomalies)) = 1
          /\ \A u \in PlacesOf(a, run.uniqueAnomalies) :
               run.uniqueAnomalies[u]
                 = (run.aggregatedAnomalies \o run.granularAnomalies)[first]
          /\ Cardinality(InsightsIn(a, run.scoredInsights)) = 1
          /\ Cardinality(InsightsIn(a, run.result)) <= 1
          /\ \A k \in InsightsIn(a, run.result) :
               ContextFrom(run.result[k],
                           (run.aggregatedAnomalies \o run.granularAnomalies)[first])

\* a run that flagged the page views of two combinations in one hour and
\* answers with the insight of the first
C30_Witness ==
    /\ run.done
    /\ \E i, j \in 1..Len(run.aggregatedAnomalies) :
         /\ i < j
         /\ KeyOf(run.aggregatedAnomalies[i]) = KeyOf(run.aggregatedAnomalies[j])
         /\ run.aggregatedAnomalies[i].metric = "PageViews"
         /\ run.aggregatedAnomalies[i].context.deviceType
              # run.aggregatedAnomalies[j].context.deviceType
         /\ \E k \in InsightsIn(run.aggregatedAnomalies[i], run.result) :
              run.result[k].context.deviceType
                = run.aggregatedAnomalies[i].context.deviceType

====
